---- MODULE Spec2Model ----
(***************************************************************************)
(* State-machine model of the buzz static-hosting server: the credential   *)
(* classifier (dependencies.py), the management handlers (routes/sites.py, *)
(* routes/tokens.py, routes/auth.py), the SQLite tables they use (db.py),  *)
(* and the static files: the tenant of a host (utils.py) and the resolver  *)
(* of app.py and of the single-file server (server.py). Requests that the  *)
(* event loop can overtake, or that wait for the identity provider, are    *)
(* tasks with a place and locals.                                          *)
(*                                                                         *)
(* Conventions                                                             *)
(*   - a nullable column or Optional value is None (<<>>) or Some(v)       *)
(*     (<<v>>);                                                            *)
(*   - a string that the code takes apart (a header, a token) is the       *)
(*     sequence of its pieces, so startswith is a test of the first piece  *)
(*     and s[7:] after "Bearer " is Tail(s);                               *)
(*   - time is in seconds; datetime.now() is the variable now.             *)
(***************************************************************************)
EXTENDS Integers, Sequences, FiniteSets, TLC

VARIABLES
    sites,                 \* table sites: set of rows
    dirs,                  \* SITES_DIR: [site name -> None | Some(set of files)]
    users,                 \* table users
    sessions,              \* table sessions
    deployment_tokens,     \* table deployment_tokens
    pending_device_codes,  \* config.pending_device_codes: set of entries
    DEV_MODE,              \* config.DEV_MODE
    now,                   \* the wall clock, seconds
    rng,                   \* how many secrets secrets.token_urlsafe has produced, per kind
    resp,                  \* the response to the last request
    tasks                  \* the requests that the event loop has begun and not yet answered

vars == <<sites, dirs, users, sessions, deployment_tokens, pending_device_codes,
          DEV_MODE, now, rng, resp, tasks>>

\* The state as one record, and the step that makes post the next state.
state ==
    [sites |-> sites, dirs |-> dirs, users |-> users, sessions |-> sessions,
     deployment_tokens |-> deployment_tokens,
     pending_device_codes |-> pending_device_codes,
     DEV_MODE |-> DEV_MODE, now |-> now, rng |-> rng, resp |-> resp, tasks |-> tasks]

Becomes(post) ==
    /\ sites' = post.sites
    /\ dirs' = post.dirs
    /\ users' = post.users
    /\ sessions' = post.sessions
    /\ deployment_tokens' = post.deployment_tokens
    /\ pending_device_codes' = post.pending_device_codes
    /\ DEV_MODE' = post.DEV_MODE
    /\ now' = post.now
    /\ rng' = post.rng
    /\ resp' = post.resp
    /\ tasks' = post.tasks

------------------------------------------------------------------------------
(* Optional values *)

None == <<>>
Some(v) == <<v>>
Val(o) == o[1]

------------------------------------------------------------------------------
(* Bounds of the model *)

\* Clock ticks of one session lifetime each that the model follows.
MaxTicks == 1
\* Secrets the model lets secrets.token_urlsafe produce, per token kind.
MaxSessionSecrets == 2
MaxDeploySecrets == 1
\* Device flows the identity provider starts.
MaxDeviceCodes == 2
\* Clock ticks of one device-code lifetime each that the device flow follows.
MaxDeviceTicks == 2
\* Requests that the event loop has begun and not yet answered.
MaxTasks == 2

SecretNames == <<"k1", "k2", "k3", "k4">>
SessionSecrets == {SecretNames[i] : i \in 1..MaxSessionSecrets}
DeploySecrets == {SecretNames[i] : i \in 1..MaxDeploySecrets}

------------------------------------------------------------------------------
(* config.py *)

SESSION_TOKEN_PREFIX == "buzz_sess_"
DEPLOY_TOKEN_PREFIX == "buzz_deploy_"
BEARER == "Bearer "

\* One name that generate_subdomain can return (adjective-noun-NNNN).
GeneratedNames == {"cool-site-1000"}

------------------------------------------------------------------------------
(* Strings *)

\* A test of the prefix that every non-empty string passes.
startswith_anything(s, prefix) == Len(s) >= 1

startswith(s, prefix) == Len(s) >= 1 /\ s[1] = prefix

\* token[7:] when the header starts with "Bearer "
StripBearer(authorization) ==
    IF startswith(authorization, BEARER) THEN Tail(authorization) ELSE authorization

------------------------------------------------------------------------------
(* auth.py *)

\* sha256(token).hexdigest(): its first 16 hex digits, then the other 48. The
\* digest is a function of the whole token and differs from the token itself.
hash_token(token) == << <<"sha256[:16]", token>>, <<"sha256[16:]", token>> >>

generate_session_token(secret) == <<SESSION_TOKEN_PREFIX, secret>>
generate_deploy_token(secret) == <<DEPLOY_TOKEN_PREFIX, secret>>

\* timedelta(days=30), in seconds
SessionLifetime == 30 * 86400

------------------------------------------------------------------------------
(* db.py *)

\* What PRAGMA foreign_keys reads on a connection that db() opens: db() never
\* sets it, so SQLite keeps its default, and the ON DELETE CASCADE clauses of
\* the schema are not acted on.
foreign_keys == FALSE

------------------------------------------------------------------------------
(* dependencies.py *)

AuthContext(authenticated, user_id, site_name, token_type) ==
    [authenticated |-> authenticated, user_id |-> user_id,
     site_name |-> site_name, token_type |-> token_type]

\* AuthContext(authenticated=False, user_id=None, site_name=None, token_type=None);
\* the token_type None is written "none", a string like the other two kinds.
Unauthenticated == AuthContext(FALSE, None, None, "none")

\* The session lookup without "AND expires_at > ?": sessions that never lapse.
select_session_unexpiring(token_hash) ==
    {r \in sessions : r.id = token_hash}

\* The session lookup with ">=" for ">": a session still valid at the very
\* second of its expiry.
select_session_inclusive(token_hash) ==
    {r \in sessions : r.id = token_hash /\ r.expires_at >= now}

\* SELECT user_id FROM sessions WHERE id = ? AND expires_at > ?
select_session(token_hash) ==
    {r \in sessions : r.id = token_hash /\ r.expires_at > now}

\* The token lookup without the test of expires_at: tokens that never lapse.
select_deploy_token_unexpiring(token_hash) ==
    {r \in deployment_tokens : r.id = token_hash}

\* SELECT user_id, site_name FROM deployment_tokens
\*   WHERE id = ? AND (expires_at IS NULL OR expires_at > ?)
select_deploy_token(token_hash) ==
    {r \in deployment_tokens :
        /\ r.id = token_hash
        /\ (r.expires_at = None \/ Val(r.expires_at) > now)}

\* The AuthContext that get_auth_context returns for an Authorization header
\* (None when the request has none).
get_auth_context(authorization) ==
    IF DEV_MODE
    THEN AuthContext(TRUE, Some(1), None, "session")
    ELSE IF authorization = None \/ Val(authorization) = <<>>
    THEN Unauthenticated
    ELSE
    LET token == StripBearer(Val(authorization))
        token_hash == hash_token(token)
    IN  IF token = <<>>
        THEN Unauthenticated
        ELSE IF startswith(token, SESSION_TOKEN_PREFIX)
        THEN LET rows == select_session(token_hash)
             IN  IF rows # {}
                 THEN AuthContext(TRUE, Some((CHOOSE r \in rows : TRUE).user_id),
                                  None, "session")
                 ELSE Unauthenticated
        ELSE IF startswith(token, DEPLOY_TOKEN_PREFIX)
        THEN LET rows == select_deploy_token(token_hash)
             IN  IF rows # {}
                 THEN LET row == CHOOSE r \in rows : TRUE
                      IN  AuthContext(TRUE, Some(row.user_id), Some(row.site_name),
                                      "deploy")
                 ELSE Unauthenticated
        ELSE Unauthenticated

\* The UPDATE of last_used_at run for every deploy-prefixed string, whether
\* its row classified or not.
stamp_last_used_always(authorization) ==
    IF DEV_MODE \/ authorization = None \/ Val(authorization) = <<>>
    THEN deployment_tokens
    ELSE {IF r.id = hash_token(StripBearer(Val(authorization)))
          THEN [r EXCEPT !.last_used_at = Some(now)]
          ELSE r : r \in deployment_tokens}

\* The table deployment_tokens after get_auth_context has run: a deploy token
\* that classifies gets UPDATE ... SET last_used_at = now, committed when the
\* with-block is left, before any guard of the handler runs.
stamp_last_used(authorization) ==
    IF DEV_MODE \/ authorization = None \/ Val(authorization) = <<>>
    THEN deployment_tokens
    ELSE
    LET token == StripBearer(Val(authorization))
        token_hash == hash_token(token)
    IN  IF /\ token # <<>>
           /\ ~startswith(token, SESSION_TOKEN_PREFIX)
           /\ startswith(token, DEPLOY_TOKEN_PREFIX)
           /\ select_deploy_token(token_hash) # {}
        THEN {IF r.id = token_hash THEN [r EXCEPT !.last_used_at = Some(now)] ELSE r :
                 r \in deployment_tokens}
        ELSE deployment_tokens

\* The result of a guard or of a handler's check: passed, or the HTTPException.
Pass == [ok |-> TRUE, status |-> 200, detail |-> "ok"]
HTTPException(status_code, detail) == [ok |-> FALSE, status |-> status_code, detail |-> detail]

\* require_auth without the test of token_type: any valid token passes.
require_auth_any_token(ctx) ==
    IF ~ctx.authenticated
    THEN HTTPException(401, "Unauthorized")
    ELSE Pass

require_auth(ctx) ==
    IF ~ctx.authenticated
    THEN HTTPException(401, "Unauthorized")
    ELSE IF ctx.token_type = "deploy"
    THEN HTTPException(403, "Deploy tokens cannot perform this operation")
    ELSE Pass

require_auth_or_deploy(ctx) ==
    IF ~ctx.authenticated
    THEN HTTPException(401, "Unauthorized")
    ELSE Pass

\* The response to a request, with the requests that its handler sent to
\* GitHub on the way (github_request, urlopen): none, for most handlers; the
\* "token" of its body: none, for most handlers; and the file whose bytes are
\* its body: none, for most handlers.
Response(op, status, detail) ==
    [op |-> op, status |-> status, detail |-> detail, github |-> {}, token |-> None,
     file |-> None]

\* The response of a handler that called the endpoints calls of GitHub.
ResponseAfter(op, status, detail, calls) ==
    [Response(op, status, detail) EXCEPT !.github = calls]

\* The response whose body has "token": token.
Returning(response, token) == [response EXCEPT !.token = Some(token)]

------------------------------------------------------------------------------
(* utils.py and the file system under SITES_DIR *)

\* Strings made only of letters, digits, "-" and "_": the ones for which
\* s.replace("-", "").replace("_", "").isalnum() holds.
AlnumNames == {"site-a", "cool-site-1000"}

\* x_subdomain.strip(): the header without its leading and trailing blanks.
RECURSIVE lstrip(_)
lstrip(s) == IF s # <<>> /\ Head(s) = " " THEN lstrip(Tail(s)) ELSE s

RECURSIVE rstrip(_)
rstrip(s) ==
    IF s # <<>> /\ s[Len(s)] = " " THEN rstrip(SubSeq(s, 1, Len(s) - 1)) ELSE s

strip(s) == rstrip(lstrip(s))

\* subdomain.replace("-", "").replace("_", "").isalnum()
is_valid_subdomain(subdomain) == Len(subdomain) = 1 /\ subdomain[1] \in AlnumNames

\* A file is [path, data]; data is the sequence of its bytes.
RECURSIVE get_dir_size(_)
get_dir_size(files) ==
    IF files = {}
    THEN 0
    ELSE LET f == CHOOSE g \in files : TRUE
         IN  Len(f.data) + get_dir_size(files \ {f})

\* The extraction that leaves a file that is already there as it is.
extractall_no_overwrite(files, members) ==
    files \cup {m \in members : \A f \in files : f.path # m.path}

\* zf.extractall(site_dir): every member is written, replacing a file of the
\* same path, and the other files of the directory stay.
extractall(files, members) ==
    {f \in files : \A m \in members : m.path # f.path} \cup members

\* site_dir.mkdir(parents=True, exist_ok=True)
mkdir(tree, name) ==
    IF tree[name] = None THEN [tree EXCEPT ![name] = Some({})] ELSE tree

------------------------------------------------------------------------------
(* routes/sites.py *)

site_row(name) == {r \in sites : r.name = name}

\* subdomain = x_subdomain.strip() if x_subdomain else generate_subdomain();
\* generated is what generate_subdomain returns when it is called.
target_subdomain(x_subdomain, generated) ==
    IF x_subdomain # None /\ Val(x_subdomain) # <<>>
    THEN strip(Val(x_subdomain))
    ELSE <<generated>>

\* The deploy without the test of the token's site.
scope_mismatch_unchecked(ctx, name) == FALSE

\* ctx.token_type == "deploy" and ctx.site_name != subdomain
scope_mismatch(ctx, name) ==
    ctx.token_type = "deploy" /\ ctx.site_name # Some(name)

\* The deploy without the test of the owner.
owned_by_another_unchecked(existing, ctx) == FALSE

\* existing and existing["owner_id"] is not None and existing["owner_id"] != ctx.user_id
owned_by_another(existing, ctx) ==
    /\ existing # {}
    /\ (CHOOSE r \in existing : TRUE).owner_id # None
    /\ (CHOOSE r \in existing : TRUE).owner_id # ctx.user_id

\* The UPDATE that writes the owner back as it found it: no claim on deploy.
claimed_owner_kept(row, ctx) == row.owner_id

\* The UPDATE that writes no owner: a redeploy resets owner_id to NULL.
claimed_owner_dropped(row, ctx) == None

\* owner_id = existing["owner_id"] if existing["owner_id"] is not None else ctx.user_id
claimed_owner(row, ctx) ==
    IF row.owner_id # None THEN row.owner_id ELSE ctx.user_id

\* POST /deploy, as a function of the request and the state: the response and
\* the tables and directories it leaves.
deploy_handler(ctx, x_subdomain, file, generated) ==
    LET gate == require_auth_or_deploy(ctx)
        subdomain == target_subdomain(x_subdomain, generated)
        name == subdomain[1]
        existing == site_row(name)
        made == mkdir(dirs, name)
        extracted ==
            [made EXCEPT ![name] = Some(extractall(Val(made[name]), file.members))]
        size_bytes == get_dir_size(Val(extracted[name]))
        same == [sites |-> sites, dirs |-> dirs]
    IN  IF ~gate.ok
        THEN [res |-> gate] @@ same
        ELSE IF ~is_valid_subdomain(subdomain)
        THEN [res |-> HTTPException(400, "Invalid subdomain")] @@ same
        ELSE IF scope_mismatch(ctx, name)
        THEN [res |-> HTTPException(403, "Deploy token is scoped to another site")] @@ same
        ELSE IF owned_by_another(existing, ctx)
        THEN [res |-> HTTPException(403, "Site is owned by another user")] @@ same
        ELSE IF ~file.is_zip
        THEN [res |-> HTTPException(400, "Invalid ZIP file"), sites |-> sites, dirs |-> made]
        ELSE IF existing # {}
        THEN LET owner_id == claimed_owner(CHOOSE r \in existing : TRUE, ctx)
             IN  [res |-> Pass,
                  sites |-> (sites \ existing) \cup
                            {[name |-> name, size_bytes |-> size_bytes,
                              created_at |-> now, owner_id |-> owner_id]},
                  dirs |-> extracted]
        ELSE [res |-> Pass,
              sites |-> sites \cup
                        {[name |-> name, size_bytes |-> size_bytes,
                          created_at |-> now, owner_id |-> ctx.user_id]},
              dirs |-> extracted]

\* The response and the state that POST /deploy leaves.
deploy_result(authorization, x_subdomain, file, generated) ==
    LET out == deploy_handler(get_auth_context(authorization), x_subdomain, file, generated)
    IN  [state EXCEPT
            !.sites = out.sites,
            !.dirs = out.dirs,
            !.deployment_tokens = stamp_last_used(authorization),
            !.resp = Response("deploy", out.res.status, out.res.detail)]

deploy(authorization, x_subdomain, file, generated) ==
    Becomes(deploy_result(authorization, x_subdomain, file, generated))

\* A request that only reads: the guard's answer, and the stamp of the
\* classification.
read_only_result(op, authorization, res) ==
    [state EXCEPT
        !.deployment_tokens = stamp_last_used(authorization),
        !.resp = Response(op, res.status, res.detail)]

\* GET /sites
list_sites_result(authorization) ==
    read_only_result("list_sites", authorization,
                     require_auth(get_auth_context(authorization)))

list_sites(authorization) == Becomes(list_sites_result(authorization))

\* DELETE FROM sites WHERE name = ?: the token rows that are left. A row of
\* deployment_tokens goes with its site only when the connection enforces
\* foreign keys.
delete_cascade(tokens, name) ==
    IF foreign_keys THEN {t \in tokens : t.site_name # name} ELSE tokens

\* site["owner_id"] is not None and site["owner_id"] != ctx.user_id
not_site_owner(site, ctx) ==
    /\ (CHOOSE r \in site : TRUE).owner_id # None
    /\ (CHOOSE r \in site : TRUE).owner_id # ctx.user_id

\* DELETE /sites/{name}
delete_site_handler(ctx, name) ==
    LET gate == require_auth(ctx)
        site == site_row(name)
        same == [sites |-> sites, dirs |-> dirs, cascade |-> FALSE]
    IN  IF ~gate.ok
        THEN [res |-> gate] @@ same
        ELSE IF site = {}
        THEN [res |-> HTTPException(404, "Site not found")] @@ same
        ELSE IF not_site_owner(site, ctx)
        THEN [res |-> HTTPException(403, "You don't own this site")] @@ same
        ELSE [res |-> [ok |-> TRUE, status |-> 204, detail |-> "ok"],
              sites |-> sites \ site,
              dirs |-> [dirs EXCEPT ![name] = None],
              cascade |-> TRUE]

delete_site_result(authorization, name) ==
    LET out == delete_site_handler(get_auth_context(authorization), name)
        stamped == stamp_last_used(authorization)
    IN  [state EXCEPT
            !.sites = out.sites,
            !.dirs = out.dirs,
            !.deployment_tokens =
                IF out.cascade THEN delete_cascade(stamped, name) ELSE stamped,
            !.resp = Response("delete_site", out.res.status, out.res.detail)]

delete_site(authorization, name) == Becomes(delete_site_result(authorization, name))

------------------------------------------------------------------------------
(* routes/tokens.py *)

\* GET /tokens
list_tokens_result(authorization) ==
    read_only_result("list_tokens", authorization,
                     require_auth(get_auth_context(authorization)))

list_tokens(authorization) == Becomes(list_tokens_result(authorization))

\* The owner test of delete_site in the place of the one of create_token:
\* a site without owner passes.
not_token_site_owner_lenient(site, ctx) ==
    /\ (CHOOSE r \in site : TRUE).owner_id # None
    /\ (CHOOSE r \in site : TRUE).owner_id # ctx.user_id

\* site["owner_id"] != ctx.user_id
not_token_site_owner(site, ctx) ==
    (CHOOSE r \in site : TRUE).owner_id # ctx.user_id

\* POST /tokens: the check before a token is made.
create_token_check(ctx, site_name) ==
    LET gate == require_auth(ctx)
        site == site_row(site_name)
    IN  IF ~gate.ok
        THEN gate
        ELSE IF site = {}
        THEN HTTPException(404, "Site not found")
        ELSE IF not_token_site_owner(site, ctx)
        THEN HTTPException(403, "You don't own this site")
        ELSE Pass

\* The token that lapses the moment it is made.
token_row_lapsed(token, name, site_name, user_id) ==
    [id |-> hash_token(token), name |-> name, site_name |-> site_name,
     user_id |-> user_id, expires_at |-> Some(now), last_used_at |-> None]

\* INSERT INTO deployment_tokens (id, name, site_name, user_id)
token_row(token, name, site_name, user_id) ==
    [id |-> hash_token(token), name |-> name, site_name |-> site_name,
     user_id |-> user_id, expires_at |-> None, last_used_at |-> None]

\* The response and the state that POST /tokens leaves. The new secret is the
\* next one of the entropy source.
create_token_result(authorization, site_name) ==
    LET ctx == get_auth_context(authorization)
        res == create_token_check(ctx, site_name)
        stamped == stamp_last_used(authorization)
        token == generate_deploy_token(SecretNames[rng.deploy + 1])
    IN  IF res.ok
        THEN [state EXCEPT
                 !.deployment_tokens = stamped \cup
                     {token_row(token, "Deployment token", site_name, Val(ctx.user_id))},
                 !.rng = [rng EXCEPT !.deploy = @ + 1],
                 !.resp = Returning(Response("create_token", 200, "ok"), token)]
        ELSE [state EXCEPT
                 !.deployment_tokens = stamped,
                 !.resp = Response("create_token", res.status, res.detail)]

\* POST /tokens, while the entropy source of the model has a secret left.
create_token(authorization, site_name) ==
    /\ create_token_check(get_auth_context(authorization), site_name).ok
           => rng.deploy < MaxDeploySecrets
    /\ Becomes(create_token_result(authorization, site_name))

\* s LIKE pattern. A pattern is a sequence of pieces like the string it is
\* matched with: Percent stands for any run of characters, so for any
\* number of pieces; Underscores is a run of "_" as long as the piece it
\* meets, each standing for one character, so for that one piece; any other
\* piece stands for itself.
Percent == <<"%">>
Underscores == <<"_">>

RECURSIVE like(_, _)
like(pattern, s) ==
    IF pattern = <<>>
    THEN s = <<>>
    ELSE IF Head(pattern) = Percent
    THEN like(Tail(pattern), s) \/ (s # <<>> /\ like(pattern, Tail(s)))
    ELSE /\ s # <<>>
         /\ (Head(pattern) = Underscores \/ Head(pattern) = Head(s))
         /\ like(Tail(pattern), Tail(s))

\* id LIKE token_id || '%'
like_prefix(token_id, id) == like(token_id \o <<Percent>>, id)

\* The lookup that leaves out "AND user_id = ?".
select_token_like_any_user(token_id, user_id) ==
    {t \in deployment_tokens : like_prefix(token_id, t.id)}

\* SELECT id FROM deployment_tokens WHERE id LIKE ? AND user_id = ?
select_token_like(token_id, user_id) ==
    {t \in deployment_tokens : like_prefix(token_id, t.id) /\ Some(t.user_id) = user_id}

\* The responses and states that DELETE /tokens/{token_id} can leave: one for
\* each row that fetchone() may return.
delete_token_results(authorization, token_id) ==
    LET ctx == get_auth_context(authorization)
        gate == require_auth(ctx)
        rows == select_token_like(token_id, ctx.user_id)
    IN  IF ~gate.ok
        THEN {read_only_result("delete_token", authorization, gate)}
        ELSE IF rows = {}
        THEN {[state EXCEPT !.resp = Response("delete_token", 404, "Token not found")]}
        ELSE {[state EXCEPT
                  !.deployment_tokens = {t \in deployment_tokens : t.id # row.id},
                  !.resp = Response("delete_token", 204, "ok")] : row \in rows}

delete_token(authorization, token_id) ==
    \E post \in delete_token_results(authorization, token_id) : Becomes(post)

------------------------------------------------------------------------------
(* routes/auth.py *)

\* GITHUB_CLIENT_ID and GITHUB_CLIENT_SECRET are set.
oauth_configured == TRUE

\* result.get("expires_in", 900)
DefaultExpiresIn == 900

\* The response and the state that POST /auth/device leaves. result is the
\* provider's answer: None when it has no device_code, else Some of the code
\* it issued and its expires_in.
device_start_result(result) ==
    IF ~oauth_configured
    THEN [state EXCEPT !.resp = Response("device_start", 500, "GitHub OAuth not configured")]
    ELSE IF result = None
    THEN [state EXCEPT !.resp = ResponseAfter("device_start", 500,
                                   "Failed to start device flow", {"login/device/code"})]
    ELSE [state EXCEPT
             !.pending_device_codes =
                 {p \in pending_device_codes : p.device_code # Val(result).device_code}
                 \cup {[device_code |-> Val(result).device_code,
                        expires_at |-> now + Val(result).expires_in]},
             !.rng = [rng EXCEPT !.device = @ + 1],
             !.resp = ResponseAfter("device_start", 200, "ok", {"login/device/code"})]

\* POST /auth/device, while the provider of the model has a code left.
device_start(result) ==
    /\ result # None => rng.device < MaxDeviceCodes
    /\ Becomes(device_start_result(result))

\* The lookup that finds no user: every completion inserts a row.
existing_user_never(github_user) == {}

\* The users table after the upsert of a GitHub profile, and the id of its row.
existing_user(github_user) == {u \in users : u.github_id = github_user.id}

upsert_user_id(github_user) ==
    IF existing_user(github_user) # {}
    THEN (CHOOSE u \in existing_user(github_user) : TRUE).id
    ELSE Cardinality(users) + 1

upsert_user(github_user) ==
    (users \ existing_user(github_user)) \cup
        {[id |-> upsert_user_id(github_user), github_id |-> github_user.id,
          github_login |-> github_user.login, github_name |-> github_user.name]}

\* The session that lasts a day.
insert_session_for_a_day(token, user_id) ==
    [id |-> hash_token(token), user_id |-> user_id, expires_at |-> now + 86400]

\* INSERT INTO sessions (id, user_id, expires_at) VALUES (token_hash, user_id,
\*   datetime.now() + timedelta(days=30))
insert_session(token, user_id) ==
    [id |-> hash_token(token), user_id |-> user_id, expires_at |-> now + SessionLifetime]

\* The test of the recorded expiry that never finds a code expired.
code_expired_never(entry) == FALSE

\* datetime.now() > pending["expires_at"]
code_expired(entry) == now > entry.expires_at

\* The provider's errors that mean "not yet", with slow_down left out.
still_pending_without_slow_down(result) == result = "authorization_pending"

\* The provider's errors that mean "not yet", with every error taken for one.
still_pending_any_error(result) == result # "access_token"

\* error == "authorization_pending", error == "slow_down"
still_pending(result) == result \in {"authorization_pending", "slow_down"}

\* The del that deletes nothing.
remove_pending_nothing(device_code) == pending_device_codes

\* del pending_device_codes[device_code]
remove_pending(device_code) ==
    {p \in pending_device_codes : p.device_code # device_code}

\* What the request for the profile can end in instead of a profile: urlopen
\* raises for a status of 400 or more and for a network failure, and nothing
\* in device_poll catches it.
ProfileFailures == {[error |-> "HTTPError"], [error |-> "URLError"]}
profile_failed(github_user) == "error" \in DOMAIN github_user

\* The response and the state that POST /auth/device/poll leaves. result is
\* the provider's answer to the exchange: "access_token" or the error it
\* reports; github_user is the profile that https://api.github.com/user
\* returns for the access token.
device_poll_result(device_code, result, github_user) ==
    LET pending == {p \in pending_device_codes : p.device_code = device_code}
        removed == remove_pending(device_code)
        entry == CHOOSE p \in pending : TRUE
        reply(status, detail) == Response("device_poll", status, detail)
        exchanged(status, detail) ==
            ResponseAfter("device_poll", status, detail, {"login/oauth/access_token"})
        token == generate_session_token(SecretNames[rng.session + 1])
    IN  IF ~oauth_configured
        THEN [state EXCEPT !.resp = reply(500, "GitHub OAuth not configured")]
        ELSE IF pending = {}
        THEN [state EXCEPT !.resp = reply(400, "Invalid or expired device code")]
        ELSE IF code_expired(entry)
        THEN [state EXCEPT !.pending_device_codes = removed,
                           !.resp = reply(400, "Device code expired")]
        ELSE IF still_pending(result)
        THEN [state EXCEPT !.resp = exchanged(200, "pending")]
        ELSE IF result = "expired_token"
        THEN [state EXCEPT !.pending_device_codes = removed,
                           !.resp = exchanged(400, "Device code expired")]
        ELSE IF result = "access_denied"
        THEN [state EXCEPT !.pending_device_codes = removed,
                           !.resp = exchanged(400, "User denied access")]
        ELSE IF result # "access_token"
        THEN [state EXCEPT !.resp = exchanged(400, result)]
        ELSE IF profile_failed(github_user)
        THEN [state EXCEPT !.resp =
                 ResponseAfter("device_poll", 500, "Internal Server Error",
                               {"login/oauth/access_token", "api.github.com/user"})]
        ELSE [state EXCEPT
                 !.users = upsert_user(github_user),
                 !.sessions = sessions \cup
                     {insert_session(token, upsert_user_id(github_user))},
                 !.rng = [rng EXCEPT !.session = @ + 1],
                 !.pending_device_codes = removed,
                 !.resp = Returning(ResponseAfter("device_poll", 200, "complete",
                                        {"login/oauth/access_token", "api.github.com/user"}),
                                    token)]

\* POST /auth/device/poll, while the entropy source of the model has a secret
\* left.
device_poll(device_code, result, github_user) ==
    /\ device_poll_result(device_code, result, github_user).resp.detail = "complete"
           => rng.session < MaxSessionSecrets
    /\ Becomes(device_poll_result(device_code, result, github_user))

\* GET /auth/me
me_result(authorization) ==
    LET ctx == get_auth_context(authorization)
        gate == require_auth(ctx)
    IN  read_only_result("me", authorization,
            IF ~gate.ok
            THEN gate
            ELSE IF {u \in users : Some(u.id) = ctx.user_id} = {}
            THEN HTTPException(404, "User not found")
            ELSE Pass)

me(authorization) == Becomes(me_result(authorization))

\* The DELETE that takes every session of the user of the token with it.
delete_session_of_user(token_hash) ==
    {r \in sessions : \A q \in sessions : q.id = token_hash => r.user_id # q.user_id}

\* DELETE FROM sessions WHERE id = ?
delete_session(token_hash) == {r \in sessions : r.id # token_hash}

\* POST /auth/logout
logout_result(authorization) ==
    IF authorization = None \/ Val(authorization) = <<>>
    THEN [state EXCEPT !.resp = Response("logout", 400, "No valid session")]
    ELSE LET token == StripBearer(Val(authorization))
         IN  IF token = <<>> \/ ~startswith(token, SESSION_TOKEN_PREFIX)
             THEN [state EXCEPT !.resp = Response("logout", 400, "No valid session")]
             ELSE [state EXCEPT
                      !.sessions = delete_session(hash_token(token)),
                      !.resp = Response("logout", 200, "ok")]

logout(authorization) == Becomes(logout_result(authorization))

\* Time passes between two requests.
Tick(seconds) ==
    /\ now + seconds <= MaxTicks * SessionLifetime
    /\ now' = now + seconds
    /\ UNCHANGED <<sites, dirs, users, sessions, deployment_tokens,
                   pending_device_codes, DEV_MODE, rng, resp, tasks>>

------------------------------------------------------------------------------
(* The file system under DATA_DIR *)

\* A path is the sequence of its segments, from DATA_DIR on; a segment is a
\* string, so a sequence of pieces: "about.html" is <<"about", ".html">> and
\* ".." is <<".", ".">>.
SITES_DIR == << <<"sites">> >>
ParentSegment == <<".", ".">>
SelfSegment == <<".">>

\* DATA_DIR / "data.db", the database, lies beside the sites directory.
DataDirFiles == {[path |-> << <<"data.db">> >>, data |-> <<"d", "b">>]}

\* The files below DATA_DIR, and the directories: DATA_DIR, SITES_DIR, the
\* directory of every site, and every directory that a file lies in.
AllFiles ==
    DataDirFiles \cup
    UNION {{[path |-> SITES_DIR \o << <<n>> >> \o f.path, data |-> f.data] :
               f \in Val(dirs[n])} : n \in {m \in DOMAIN dirs : dirs[m] # None}}
Directories ==
    {<<>>, SITES_DIR}
    \cup {SITES_DIR \o << <<n>> >> : n \in {m \in DOMAIN dirs : dirs[m] # None}}
    \cup UNION {{SubSeq(f.path, 1, i) : i \in 0..(Len(f.path) - 1)} : f \in AllFiles}

\* Where the operating system arrives when it follows the segments from the
\* directory cur: an empty segment and "." stay, ".." goes to the parent
\* (DATA_DIR is the root here), a name goes down; a step from anything that
\* is no directory fails.
RECURSIVE walk(_, _)
walk(cur, segs) ==
    IF segs = <<>>
    THEN Some(cur)
    ELSE IF cur \notin Directories
    THEN None
    ELSE IF Head(segs) = <<>> \/ Head(segs) = SelfSegment
    THEN walk(cur, Tail(segs))
    ELSE IF Head(segs) = ParentSegment
    THEN walk(IF cur = <<>> THEN cur ELSE SubSeq(cur, 1, Len(cur) - 1), Tail(segs))
    ELSE walk(cur \o <<Head(segs)>>, Tail(segs))

resolved(path) == walk(<<>>, path)

\* Path.exists(), Path.is_file(), Path.read_bytes()
exists(path) ==
    /\ resolved(path) # None
    /\ Val(resolved(path)) \in Directories \cup {f.path : f \in AllFiles}
is_file(path) ==
    /\ resolved(path) # None
    /\ Val(resolved(path)) \in {f.path : f \in AllFiles}
file_at(path) == CHOOSE f \in AllFiles : f.path = Val(resolved(path))

------------------------------------------------------------------------------
(* Strings of paths and hosts *)

\* s.split(sep)[0]: the pieces before the first sep.
RECURSIVE before(_, _)
before(s, sep) ==
    IF s = <<>> \/ Head(s) = sep THEN <<>> ELSE <<Head(s)>> \o before(Tail(s), sep)

\* s.split(sep): the runs of pieces between the seps.
RECURSIVE split(_, _)
split(s, sep) ==
    IF \A i \in 1..Len(s) : s[i] # sep
    THEN <<s>>
    ELSE <<before(s, sep)>> \o split(SubSeq(s, Len(before(s, sep)) + 2, Len(s)), sep)

endswith(s, suffix) ==
    /\ Len(s) >= Len(suffix)
    /\ SubSeq(s, Len(s) - Len(suffix) + 1, Len(s)) = suffix

\* s.lstrip("/")
RECURSIVE lstrip_slash(_)
lstrip_slash(s) == IF s # <<>> /\ Head(s) = "/" THEN lstrip_slash(Tail(s)) ELSE s

\* directory / s, for a string s that does not start with "/"
joinpath(directory, s) == directory \o split(s, "/")

------------------------------------------------------------------------------
(* utils.py: the tenant of a request *)

\* The host with its port left on.
strip_port_kept(host) == host

\* host.split(":")[0]
strip_port(host) == before(host, ":")

\* extract_subdomain(host), with config.DOMAIN as domain: None, or Some of the
\* tenant's name.
extract_subdomain(host, domain) ==
    IF host = None \/ Val(host) = <<>>
    THEN None
    ELSE
    LET h == strip_port(Val(host))
        parts == split(h, ".")
    IN  IF domain # None /\ Val(domain) # <<>> /\ endswith(h, <<".">> \o Val(domain))
        THEN LET sub == SubSeq(h, 1, Len(h) - (Len(Val(domain)) + 1))
             IN  IF sub # <<>> THEN Some(sub) ELSE None
        ELSE IF /\ Len(parts) >= 2
                /\ parts[Len(parts)] = <<"localhost">>
                /\ parts[1] # <<"localhost">>
        THEN Some(parts[1])
        ELSE None

\* "if subdomain:", the test that the callers make of the result.
truthy(subdomain) == subdomain # None /\ Len(Val(subdomain)) > 0

------------------------------------------------------------------------------
(* app.py *)

\* config.DOMAIN, read from BUZZ_DOMAIN, of the deployment that the
\* specification of the static server follows.
BUZZ_DOMAIN == Some(<<"example", ".", "com">>)

\* Response(content=text, status_code=status, media_type="text/plain")
text_response(op, status, text) == Response(op, status, text)

\* A response whose body is the bytes of the file that path leads to.
file_response(op, status, path) ==
    [Response(op, status, "file") EXCEPT !.file = Some(file_at(path))]

\* The test of the site directory that finds every directory there.
site_missing_never(site_dir) == FALSE

\* not site_dir.exists()
site_missing(site_dir) == ~exists(site_dir)

\* path.split("?")[0], and "index.html" after a final "/"
clean_path(path) ==
    IF endswith(before(path, "?"), <<"/">>)
    THEN before(path, "?") \o <<"index", ".html">>
    ELSE before(path, "?")

\* The two candidates the other way round: the index of the directory first.
candidates_index_first(site_dir, path) ==
    <<joinpath(site_dir, lstrip_slash(path)) \o << <<"index", ".html">> >>,
      joinpath(site_dir, lstrip_slash(path) \o <<".html">>)>>

\* [site_dir / (path.lstrip("/") + ".html"), site_dir / path.lstrip("/") / "index.html"]
candidates(site_dir, path) ==
    <<joinpath(site_dir, lstrip_slash(path) \o <<".html">>),
      joinpath(site_dir, lstrip_slash(path)) \o << <<"index", ".html">> >> >>

\* The first candidate that is a file, if the path does not end in ".html"
\* and there is one.
first_candidate(site_dir, path) ==
    LET tried == candidates(site_dir, path)
        found == {i \in 1..Len(tried) : is_file(tried[i])}
    IN  IF endswith(path, <<".html">>) \/ found = {}
        THEN None
        ELSE Some(tried[CHOOSE i \in found : \A j \in found : i <= j])

\* serve_static(request, subdomain, path): the response.
serve_static(subdomain, path) ==
    LET site_dir == joinpath(SITES_DIR, subdomain)
        cleaned == clean_path(path)
        filepath == joinpath(site_dir, lstrip_slash(cleaned))
        custom_404 == site_dir \o << <<"404", ".html">> >>
    IN  IF site_missing(site_dir)
        THEN text_response("serve_static", 404, "Site not found")
        ELSE IF is_file(filepath)
        THEN file_response("serve_static", 200, filepath)
        ELSE IF first_candidate(site_dir, cleaned) # None
        THEN file_response("serve_static", 200, Val(first_candidate(site_dir, cleaned)))
        ELSE IF exists(custom_404)
        THEN file_response("serve_static", 404, custom_404)
        ELSE text_response("serve_static", 404, "404 Not Found")

\* GET on a path that is no route of the management API: landing for "/",
\* catch_all for the others.
get_result(host, path) ==
    LET subdomain == extract_subdomain(host, BUZZ_DOMAIN)
    IN  [state EXCEPT !.resp =
            IF truthy(subdomain)
            THEN serve_static(Val(subdomain), path)
            ELSE IF path = <<"/">>
            THEN text_response("landing", 200, "landing.html")
            ELSE text_response("catch_all", 404, "404 Not Found")]

get(host, path) == Becomes(get_result(host, path))

------------------------------------------------------------------------------
(* server.py: the static files of the single-file server *)

\* RequestHandler.send_404(site_dir): the custom page goes out through
\* send_file.
send_404(site_dir) ==
    IF exists(site_dir \o << <<"404", ".html">> >>)
    THEN file_response("RequestHandler.serve_static", 200,
                       site_dir \o << <<"404", ".html">> >>)
    ELSE text_response("RequestHandler.serve_static", 404, "404 Not Found")

\* RequestHandler.serve_static(subdomain), for the path of the request.
RequestHandler_serve_static(subdomain, path) ==
    LET site_dir == joinpath(SITES_DIR, subdomain)
        cleaned == clean_path(path)
        filepath == joinpath(site_dir, lstrip_slash(cleaned))
    IN  IF site_missing(site_dir)
        THEN text_response("RequestHandler.serve_static", 404, "Site not found")
        ELSE IF is_file(filepath)
        THEN file_response("RequestHandler.serve_static", 200, filepath)
        ELSE IF first_candidate(site_dir, cleaned) # None
        THEN file_response("RequestHandler.serve_static", 200,
                           Val(first_candidate(site_dir, cleaned)))
        ELSE send_404(site_dir)

\* RequestHandler.do_GET on a path that is no route of the management API.
do_GET_result(host, path) ==
    LET subdomain == extract_subdomain(host, BUZZ_DOMAIN)
    IN  [state EXCEPT !.resp =
            IF truthy(subdomain)
            THEN RequestHandler_serve_static(Val(subdomain), path)
            ELSE IF path = <<"/">>
            THEN text_response("RequestHandler.send_landing_page", 200, "landing")
            ELSE text_response("RequestHandler.do_GET", 404, "404 Not Found")]

do_GET(host, path) == Becomes(do_GET_result(host, path))

------------------------------------------------------------------------------
(* The routes of GET *)

RouteMe == <<"/", "auth", "/", "me">>
RouteSites == <<"/", "sites">>
RouteTokens == <<"/", "tokens">>
RouteHealth == <<"/", "health">>

\* GET /health
health_result == [state EXCEPT !.resp = Response("health", 200, "ok")]

\* create_app: a GET goes to the first route that matches its path, in the
\* order in which the routes were added: the routers of auth, sites and
\* tokens, then /health, then landing and catch_all. No route but the last
\* two looks at the host.
create_app(authorization, host, path) ==
    IF before(path, "?") = RouteMe
    THEN me_result(authorization)
    ELSE IF before(path, "?") = RouteSites
    THEN list_sites_result(authorization)
    ELSE IF before(path, "?") = RouteTokens
    THEN list_tokens_result(authorization)
    ELSE IF before(path, "?") = RouteHealth
    THEN health_result
    ELSE get_result(host, path)

app_get(authorization, host, path) == Becomes(create_app(authorization, host, path))

\* A handler of the single-file server, which answers as the handler of the
\* same request in the package does when DEV_MODE is off.
RequestHandler_handle(op, post) == [post EXCEPT !.resp.op = op]

\* RequestHandler.do_GET: the tenant first, then the paths of the management
\* API, compared with the whole request path.
RequestHandler_do_GET(authorization, host, path) ==
    IF truthy(extract_subdomain(host, BUZZ_DOMAIN))
    THEN do_GET_result(host, path)
    ELSE IF path = RouteMe
    THEN RequestHandler_handle("RequestHandler.handle_auth_me", me_result(authorization))
    ELSE IF path = RouteSites
    THEN RequestHandler_handle("RequestHandler.handle_list_sites",
                               list_sites_result(authorization))
    ELSE IF path = RouteTokens
    THEN RequestHandler_handle("RequestHandler.handle_list_tokens",
                               list_tokens_result(authorization))
    ELSE do_GET_result(host, path)

server_get(authorization, host, path) ==
    Becomes(RequestHandler_do_GET(authorization, host, path))

------------------------------------------------------------------------------
(* The event loop *)

\* uvicorn runs the application on one event loop in one process. A handler
\* is a coroutine: once the loop has begun it, the loop runs nothing else
\* until the coroutine awaits or returns. A task is a request that has begun
\* and is not yet answered, with the place it is at (pc) and its locals.

\* The scheduling of threads: a request can be overtaken at every place.
awaits_everywhere(pc) == TRUE

\* The places of the handlers at which the coroutine awaits: the body of
\* deploy awaits file.read(); urlopen is a call that blocks, not an await.
awaits(pc) == pc = "file.read"

\* The tasks that hold the loop, and the ids that a new task can take.
Running == {t \in tasks : ~awaits(t.pc)}
FreeIds == (1..MaxTasks) \ {t.id : t \in tasks}
NewId == CHOOSE i \in FreeIds : \A j \in FreeIds : i <= j

\* The loop can begin a request, and can go on with the task t.
CanBegin == Running = {} /\ FreeIds # {}
CanResume(t) == t \in tasks /\ Running \subseteq {t}

\* A request that ends in an exception that nothing catches.
InternalServerError(op, exception) == Response(op, 500, exception)

(* routes/sites.py: deploy, in the two parts that the await divides *)

\* deploy up to "content = await file.read()": the dependency, the name and
\* the two tests.
deploy_check(ctx, x_subdomain, generated) ==
    LET gate == require_auth_or_deploy(ctx)
        subdomain == target_subdomain(x_subdomain, generated)
    IN  IF ~gate.ok
        THEN gate
        ELSE IF ~is_valid_subdomain(subdomain)
        THEN HTTPException(400, "Invalid subdomain")
        ELSE IF scope_mismatch(ctx, subdomain[1])
        THEN HTTPException(403, "Deploy token is scoped to another site")
        ELSE IF owned_by_another(site_row(subdomain[1]), ctx)
        THEN HTTPException(403, "Site is owned by another user")
        ELSE Pass

\* The request is answered by the check, or waits for its upload with the
\* row it has read in the local existing.
deploy_await(authorization, x_subdomain, file, generated) ==
    LET ctx == get_auth_context(authorization)
        res == deploy_check(ctx, x_subdomain, generated)
        name == target_subdomain(x_subdomain, generated)[1]
    IN  IF ~res.ok
        THEN [state EXCEPT
                 !.deployment_tokens = stamp_last_used(authorization),
                 !.resp = Response("deploy", res.status, res.detail)]
        ELSE [state EXCEPT
                 !.deployment_tokens = stamp_last_used(authorization),
                 !.tasks = tasks \cup
                     {[id |-> NewId, op |-> "deploy", pc |-> "file.read",
                       user_id |-> ctx.user_id, name |-> name,
                       existing |-> site_row(name), file |-> file]}]

\* UPDATE sites SET size_bytes = ?, created_at = ?, owner_id = ? WHERE name = ?
update_site(name, size_bytes, owner_id) ==
    {IF r.name = name
     THEN [name |-> name, size_bytes |-> size_bytes, created_at |-> now,
           owner_id |-> owner_id]
     ELSE r : r \in sites}

\* deploy after the await: the directory, the extraction, and the UPDATE or
\* the INSERT that the local existing chooses. name is the primary key of
\* sites: the INSERT of a name that has a row by now raises
\* sqlite3.IntegrityError.
deploy_resume(t) ==
    LET made == mkdir(dirs, t.name)
        extracted ==
            [made EXCEPT ![t.name] = Some(extractall(Val(made[t.name]), t.file.members))]
        size_bytes == get_dir_size(Val(extracted[t.name]))
        left == tasks \ {t}
    IN  IF ~t.file.is_zip
        THEN [state EXCEPT !.dirs = made, !.tasks = left,
                           !.resp = Response("deploy", 400, "Invalid ZIP file")]
        ELSE IF t.existing # {}
        THEN [state EXCEPT
                 !.dirs = extracted,
                 !.sites = update_site(t.name, size_bytes,
                                       claimed_owner(CHOOSE r \in t.existing : TRUE, t)),
                 !.tasks = left,
                 !.resp = Response("deploy", 200, "ok")]
        ELSE IF site_row(t.name) # {}
        THEN [state EXCEPT
                 !.dirs = extracted,
                 !.tasks = left,
                 !.resp = InternalServerError("deploy", "sqlite3.IntegrityError")]
        ELSE [state EXCEPT
                 !.dirs = extracted,
                 !.sites = sites \cup
                     {[name |-> t.name, size_bytes |-> size_bytes,
                       created_at |-> now, owner_id |-> t.user_id]},
                 !.tasks = left,
                 !.resp = Response("deploy", 200, "ok")]

DeployAwait(authorization, x_subdomain, file, generated) ==
    /\ CanBegin
    /\ Becomes(deploy_await(authorization, x_subdomain, file, generated))

DeployResume(t) ==
    /\ CanResume(t)
    /\ t.op = "deploy"
    /\ Becomes(deploy_resume(t))

\* DELETE /sites/{name}: a coroutine without await.
DeleteSite(authorization, name) ==
    /\ Running = {}
    /\ delete_site(authorization, name)

(* routes/auth.py: the device flow, from one call of the provider to the next *)

\* A task of the device flow is at the call of the provider that it has
\* made: pc is the address, and answer is None until the provider's answer
\* has arrived. urlopen is called without timeout, so the task stays there
\* until it has.
CallStart == "login/device/code"
CallExchange == "login/oauth/access_token"
CallProfile == "api.github.com/user"
Calling(id, op, pc, device_code) ==
    [id |-> id, op |-> op, pc |-> pc, device_code |-> device_code, answer |-> None]

\* device_code in pending_device_codes
has_pending(device_code) == \E p \in pending_device_codes : p.device_code = device_code

\* device_start up to the call of the provider.
start_call ==
    IF ~oauth_configured
    THEN device_start_result(None)
    ELSE [state EXCEPT !.tasks = tasks \cup {Calling(NewId, "device_start", CallStart, "")}]

\* device_start after the call.
start_return(t) ==
    [device_start_result(Val(t.answer)) EXCEPT !.tasks = tasks \ {t}]

\* device_poll up to the exchange: the request is answered by one of the
\* tests before it, or calls the provider.
poll_call(device_code) ==
    LET early == device_poll_result(device_code, "authorization_pending",
                                    CHOOSE g \in ProfileFailures : TRUE)
    IN  IF early.resp.github = {}
        THEN early
        ELSE [state EXCEPT !.tasks =
                 tasks \cup {Calling(NewId, "device_poll", CallExchange, device_code)}]

\* device_poll from the answer to the exchange to the request for the
\* profile. del pending_device_codes[device_code] raises KeyError when the
\* record is not there.
poll_exchanged(t) ==
    LET result == Val(t.answer)
        left == tasks \ {t}
        exchanged(status, detail) ==
            ResponseAfter("device_poll", status, detail, {CallExchange})
    IN  IF still_pending(result)
        THEN [state EXCEPT !.tasks = left, !.resp = exchanged(200, "pending")]
        ELSE IF result \in {"expired_token", "access_denied"}
        THEN IF ~has_pending(t.device_code)
             THEN [state EXCEPT !.tasks = left,
                                !.resp = InternalServerError("device_poll", "KeyError")]
             ELSE [state EXCEPT
                      !.pending_device_codes = remove_pending(t.device_code),
                      !.tasks = left,
                      !.resp = exchanged(400, IF result = "expired_token"
                                               THEN "Device code expired"
                                               ELSE "User denied access")]
        ELSE IF result # "access_token"
        THEN [state EXCEPT !.tasks = left, !.resp = exchanged(400, result)]
        ELSE [state EXCEPT !.tasks =
                 left \cup {Calling(t.id, "device_poll", CallProfile, t.device_code)}]

\* device_poll from the answer to the request for the profile to the end:
\* the database block is committed before the del.
poll_completed(t) ==
    LET github_user == Val(t.answer)
        left == tasks \ {t}
        token == generate_session_token(SecretNames[rng.session + 1])
        written ==
            [state EXCEPT
                !.users = upsert_user(github_user),
                !.sessions = sessions \cup
                    {insert_session(token, upsert_user_id(github_user))},
                !.rng = [rng EXCEPT !.session = @ + 1],
                !.tasks = left]
    IN  IF profile_failed(github_user)
        THEN [state EXCEPT !.tasks = left, !.resp =
                 ResponseAfter("device_poll", 500, "Internal Server Error",
                               {CallExchange, CallProfile})]
        ELSE IF ~has_pending(t.device_code)
        THEN [written EXCEPT !.resp = InternalServerError("device_poll", "KeyError")]
        ELSE [written EXCEPT
                 !.pending_device_codes = remove_pending(t.device_code),
                 !.resp = Returning(ResponseAfter("device_poll", 200, "complete",
                                        {CallExchange, CallProfile}),
                                    token)]

------------------------------------------------------------------------------
(* The requests that clients send *)

SessionTokens == {generate_session_token(k) : k \in SessionSecrets}
DeployTokens == {generate_deploy_token(k) : k \in DeploySecrets}

\* Authorization headers: none, empty, "Bearer " alone, every token of the
\* model with and without "Bearer ", and tokens of no known prefix.
Authorizations ==
    {None, Some(<<>>), Some(<<BEARER>>)}
    \cup {Some(<<BEARER>> \o t) : t \in SessionTokens \cup DeployTokens}
    \cup {Some(t) : t \in SessionTokens \cup DeployTokens}
    \cup {Some(<<BEARER, "buzz_", "k1">>), Some(<<"Basic ", "k1">>)}

\* x-subdomain headers: none, empty, blanks only, a name that is not
\* alphanumeric, a name, and a name with blanks around it.
XSubdomains ==
    {None, Some(<<>>), Some(<<" ">>), Some(<<"bad.name">>), Some(<<" ", "site-a", " ">>)}
    \cup {Some(<<n>>) : n \in AlnumNames}

\* Site names in a path or a body.
RequestNames == AlnumNames \cup {"bad.name"}

\* Uploads: a ZIP archive, and a file that is no ZIP archive.
IndexZip == [is_zip |-> TRUE, members |-> {[path |-> "index.html", data |-> <<"a">>]}]
NotZip == [is_zip |-> FALSE, members |-> {}]
Uploads == {IndexZip, NotZip}

\* Token ids in DELETE /tokens/{token_id}: the 16 digits that the listing
\* shows, or a whole digest.
TokenIds ==
    {SubSeq(hash_token(t), 1, 1) : t \in DeployTokens}
    \cup {hash_token(t) : t \in DeployTokens}

\* What the identity provider answers.
DeviceCodeNames == <<"dc1", "dc2", "dc3", "dc4">>
StartResults ==
    {None, Some([device_code |-> DeviceCodeNames[rng.device + 1],
                 expires_in |-> DefaultExpiresIn])}
PollResults ==
    {"access_token", "authorization_pending", "slow_down", "expired_token",
     "access_denied", "unsupported_grant_type"}
GithubUsers ==
    {[id |-> 101, login |-> "alice", name |-> "Alice"],
     [id |-> 102, login |-> "bob", name |-> "Bob"]}
DeviceCodes == {DeviceCodeNames[i] : i \in 1..MaxDeviceCodes}

\* The requests that the clients of the specification send: one header or
\* value for each way the handlers treat it. The properties range over the
\* whole of Authorizations, XSubdomains and TokenIds.
ClientAuthorizations ==
    {None} \cup {Some(<<BEARER>> \o t) : t \in SessionTokens \cup DeployTokens}
ClientXSubdomains == {None, Some(<<"bad.name">>), Some(<<" ", "site-a", " ">>)}
ClientTokenIds == {SubSeq(hash_token(t), 1, 1) : t \in DeployTokens}

\* The provider of the device flow, and the loop that waits for it.

\* What the provider can answer to the call that the task t is in, while the
\* provider of the model has a code and the entropy source a secret left.
Answers(t) ==
    IF t.pc = CallStart
    THEN {r \in StartResults : r # None => rng.device < MaxDeviceCodes}
    ELSE IF t.pc = CallExchange
    THEN {r \in PollResults : r = "access_token" => rng.session < MaxSessionSecrets}
    ELSE GithubUsers \cup ProfileFailures

\* The answer of the provider arrives.
ProviderAnswers(t, x) ==
    /\ t \in tasks
    /\ t.answer = None
    /\ x \in Answers(t)
    /\ tasks' = (tasks \ {t}) \cup {[t EXCEPT !.answer = Some(x)]}
    /\ UNCHANGED <<sites, dirs, users, sessions, deployment_tokens,
                   pending_device_codes, DEV_MODE, now, rng, resp>>

StartCall == CanBegin /\ Becomes(start_call)
PollCall(device_code) == CanBegin /\ Becomes(poll_call(device_code))

\* The loop goes on with a task whose call has returned.
Returns(t) ==
    /\ CanResume(t)
    /\ t.answer # None
    /\ Becomes(IF t.pc = CallStart THEN start_return(t)
               ELSE IF t.pc = CallExchange THEN poll_exchanged(t)
               ELSE poll_completed(t))

------------------------------------------------------------------------------
(* The specification *)

NoResponse == Response("none", 0, "none")

\* A site of a database that predates the owner_id column: init_db adds the
\* column, and the row has no owner.
LegacySite == [name |-> "site-a", size_bytes |-> 1, created_at |-> 0, owner_id |-> None]
LegacyFiles == {[path |-> "legacy.html", data |-> <<"l">>]}

\* The users and sessions of a database in which two users have logged in.
InitUsers ==
    {[id |-> 1, github_id |-> 101, github_login |-> "alice", github_name |-> "Alice"],
     [id |-> 2, github_id |-> 102, github_login |-> "bob", github_name |-> "Bob"]}
InitSessions ==
    {[id |-> hash_token(generate_session_token(SecretNames[u.id])),
      user_id |-> u.id, expires_at |-> SessionLifetime] : u \in InitUsers}

\* The server starts on a database that two users have logged in to, with or
\* without a site of the time before owners.
Init ==
    /\ \/ /\ sites = {}
          /\ dirs = [n \in AlnumNames |-> None]
       \/ /\ sites = {LegacySite}
          /\ dirs = [n \in AlnumNames |-> IF n = LegacySite.name THEN Some(LegacyFiles) ELSE None]
    /\ users = InitUsers
    /\ sessions = InitSessions
    /\ deployment_tokens = {}
    /\ pending_device_codes = {}
    /\ DEV_MODE = FALSE
    /\ now = 0
    /\ rng = [session |-> Cardinality(InitSessions), deploy |-> 0, device |-> 0]
    /\ resp = NoResponse
    /\ tasks = {}

\* The management requests, with their inputs drawn from the given sets.
Requests(auths, xsubs, uploads, names, ids) ==
    \/ \E a \in auths, x \in xsubs, f \in uploads, g \in GeneratedNames :
           deploy(a, x, f, g)
    \/ \E a \in auths : list_sites(a)
    \/ \E a \in auths, n \in names : delete_site(a, n)
    \/ \E a \in auths : list_tokens(a)
    \/ \E a \in auths, n \in names : create_token(a, n)
    \/ \E a \in auths, id \in ids : delete_token(a, id)
    \/ \E a \in auths : me(a)
    \/ \E a \in auths : logout(a)

Next ==
    \/ Requests(ClientAuthorizations, ClientXSubdomains, Uploads, RequestNames, ClientTokenIds)
    \/ Tick(SessionLifetime)

Spec == Init /\ [][Next]_vars

\* The server on a database that only the first user has logged in to:
\* the other user arrives through the device flow.
InitLogin ==
    /\ \/ /\ sites = {}
          /\ dirs = [n \in AlnumNames |-> None]
       \/ /\ sites = {LegacySite}
          /\ dirs = [n \in AlnumNames |-> IF n = LegacySite.name THEN Some(LegacyFiles) ELSE None]
    /\ users = {u \in InitUsers : u.id = 1}
    /\ sessions = {r \in InitSessions : r.user_id = 1}
    /\ deployment_tokens = {}
    /\ pending_device_codes = {}
    /\ DEV_MODE = FALSE
    /\ now = 0
    /\ rng = [session |-> 1, deploy |-> 0, device |-> 0]
    /\ resp = NoResponse
    /\ tasks = {}

NextLogin ==
    \/ \E r \in StartResults : device_start(r)
    \/ \E c \in DeviceCodes, r \in PollResults, g \in GithubUsers : device_poll(c, r, g)
    \/ Requests(ClientAuthorizations, {None, Some(<<"site-a">>)}, {IndexZip},
                AlnumNames, ClientTokenIds)

SpecLogin == InitLogin /\ [][NextLogin]_vars

\* main.py: the values that config.DEV_MODE can have in the process that
\* serves the requests, given the flags --dev and --reload. config.py sets it
\* to False and main sets it to True only under --dev. Under --reload uvicorn
\* serves from a child process, which has the value of main's process if it
\* is forked and the one of config.py if it imports the module afresh.
main_always_dev(dev, reload) == {TRUE}

main(dev, reload) ==
    IF ~dev THEN {FALSE}
    ELSE IF reload THEN BOOLEAN
    ELSE {TRUE}

\* The server started with any flags, on an empty database or on one that
\* two users have logged in to.
InitDev ==
    /\ \E dev \in BOOLEAN, reload \in BOOLEAN : DEV_MODE \in main(dev, reload)
    /\ sites = {}
    /\ dirs = [n \in AlnumNames |-> None]
    /\ \/ users = {} /\ sessions = {}
       \/ users = InitUsers /\ sessions = InitSessions
    /\ deployment_tokens = {}
    /\ pending_device_codes = {}
    /\ now = 0
    /\ rng = [session |-> Cardinality(sessions), deploy |-> 0, device |-> 0]
    /\ resp = NoResponse
    /\ tasks = {}

NextDev ==
    Requests(ClientAuthorizations, ClientXSubdomains, Uploads, RequestNames, ClientTokenIds)

SpecDev == InitDev /\ [][NextDev]_vars

\* The device flow on an empty database. The provider answers every poll as
\* it pleases; the profile of the first user may come back renamed; the
\* clock advances by the lifetime of a device code.
RenamedUsers == {[id |-> 101, login |-> "alice-renamed", name |-> "Alice R."]}
PolledCodes == DeviceCodes \cup {"dc-never-issued"}

InitDevice ==
    /\ sites = {}
    /\ dirs = [n \in AlnumNames |-> None]
    /\ users = {}
    /\ sessions = {}
    /\ deployment_tokens = {}
    /\ pending_device_codes = {}
    /\ DEV_MODE = FALSE
    /\ now = 0
    /\ rng = [session |-> 0, deploy |-> 0, device |-> 0]
    /\ resp = NoResponse
    /\ tasks = {}

NextDevice ==
    \/ \E r \in StartResults : device_start(r)
    \/ \E c \in PolledCodes, r \in PollResults, g \in GithubUsers \cup RenamedUsers :
           device_poll(c, r, g)
    \/ /\ now + DefaultExpiresIn <= MaxDeviceTicks * DefaultExpiresIn
       /\ Tick(DefaultExpiresIn)

SpecDevice == InitDevice /\ [][NextDevice]_vars

\* The device flow with a provider whose profile endpoint can fail.
NextExchange ==
    \/ \E r \in StartResults : device_start(r)
    \/ \E c \in PolledCodes, r \in PollResults, g \in GithubUsers \cup ProfileFailures :
           device_poll(c, r, g)
    \/ /\ now + DefaultExpiresIn <= MaxDeviceTicks * DefaultExpiresIn
       /\ Tick(DefaultExpiresIn)

SpecExchange == InitDevice /\ [][NextExchange]_vars

\* The device flow on the event loop: requests begin, wait for the provider,
\* and go on when its answer has arrived.
NextLoop ==
    \/ StartCall
    \/ \E c \in PolledCodes : PollCall(c)
    \/ \E t \in tasks : \E x \in Answers(t) : ProviderAnswers(t, x)
    \/ \E t \in tasks : Returns(t)
    \/ /\ now + DefaultExpiresIn <= MaxDeviceTicks * DefaultExpiresIn
       /\ Tick(DefaultExpiresIn)

SpecLoop == InitDevice /\ [][NextLoop]_vars

\* The same, with the loop going on with every task whose call has
\* returned. Nothing obliges the provider to answer.
SpecWaiting == SpecLoop /\ WF_vars(\E t \in tasks : Returns(t))

\* Logins on an empty database, over the lifetime of a session: the device
\* flow issues sessions, their holders present them and log out, and the
\* clock advances by the lifetime of a session.
SessionAuthorizations == {Some(<<BEARER>> \o t) : t \in SessionTokens}

NextSession ==
    \/ \E r \in StartResults : device_start(r)
    \/ \E c \in DeviceCodes, r \in {"access_token", "authorization_pending"},
          g \in GithubUsers : device_poll(c, r, g)
    \/ \E a \in SessionAuthorizations : me(a)
    \/ \E a \in SessionAuthorizations : logout(a)
    \/ Tick(SessionLifetime)

SpecSession == InitDevice /\ [][NextSession]_vars

\* Tokens on a database that holds tokens of earlier runs: two users, each
\* the owner of one site, the first with up to two tokens and the second
\* with up to one. The ids in the requests are the 16 digits that the
\* listing shows, and strings with the wildcards of LIKE.
OldSecrets == <<"old1", "old2", "old3">>
OldTokens ==
    {token_row(generate_deploy_token(OldSecrets[1]), "Deployment token", "site-a", 1),
     token_row(generate_deploy_token(OldSecrets[2]), "Deployment token", "site-a", 1),
     token_row(generate_deploy_token(OldSecrets[3]), "Deployment token", "cool-site-1000", 2)}
OwnedSites ==
    {[name |-> "site-a", size_bytes |-> 1, created_at |-> 0, owner_id |-> Some(1)],
     [name |-> "cool-site-1000", size_bytes |-> 1, created_at |-> 0, owner_id |-> Some(2)]}
ShownIds == {SubSeq(t.id, 1, 1) : t \in OldTokens} \cup ClientTokenIds
WildcardIds ==
    {<<>>, <<Percent>>, <<Underscores>>, <<Underscores, Underscores>>,
     <<Underscores, Underscores, Underscores>>, <<Percent, Underscores>>}

InitTokens ==
    /\ sites = OwnedSites
    /\ dirs = [n \in AlnumNames |-> Some(LegacyFiles)]
    /\ users = InitUsers
    /\ sessions = InitSessions
    /\ deployment_tokens \in SUBSET OldTokens
    /\ pending_device_codes = {}
    /\ DEV_MODE = FALSE
    /\ now = 0
    /\ rng = [session |-> Cardinality(InitSessions), deploy |-> 0, device |-> 0]
    /\ resp = NoResponse
    /\ tasks = {}

NextTokens ==
    \/ \E a \in ClientAuthorizations : list_tokens(a)
    \/ \E a \in ClientAuthorizations, n \in AlnumNames : create_token(a, n)
    \/ \E a \in ClientAuthorizations, id \in ShownIds \cup {<<Percent>>, <<Underscores>>} :
           delete_token(a, id)

SpecTokens == InitTokens /\ [][NextTokens]_vars

\* The static server on a directory of sites. The first site holds any of
\* the files that the resolver looks for (a path is a file or a directory,
\* not both); the second site is there with one file, or is not there.
SiteFiles ==
    {[path |-> << <<"about">> >>, data |-> <<"a">>],
     [path |-> << <<"about", ".html">> >>, data |-> <<"a", "h">>],
     [path |-> << <<"about">>, <<"index", ".html">> >>, data |-> <<"a", "i">>],
     [path |-> << <<"index", ".html">> >>, data |-> <<"i">>],
     [path |-> << <<"404", ".html">> >>, data |-> <<"4">>],
     [path |-> << <<"200", ".html">> >>, data |-> <<"2">>]}
OtherSiteFiles == {[path |-> << <<"secret", ".html">> >>, data |-> <<"s">>]}
Trees ==
    {fs \in SUBSET SiteFiles :
        \A f, g \in fs : \A i \in 1..(Len(g.path) - 1) : SubSeq(g.path, 1, i) # f.path}

\* Host headers: none, empty, a tenant under the base domain with and
\* without port, a tenant without directory, the apex, an empty left part,
\* ".." and "a.b" as the left part, hosts under localhost, and other hosts.
Hosts ==
    {None, Some(<<>>),
     Some(<<"site-a", ".", "example", ".", "com">>),
     Some(<<"site-a", ".", "example", ".", "com", ":", "8080">>),
     Some(<<"cool-site-1000", ".", "example", ".", "com">>),
     Some(<<"ghost", ".", "example", ".", "com">>),
     Some(<<"example", ".", "com">>),
     Some(<<".", "example", ".", "com">>),
     Some(<<".", ".", ".", "example", ".", "com">>),
     Some(<<"a", ".", "b", ".", "example", ".", "com">>),
     Some(<<"site-a", ".", "localhost">>),
     Some(<<"site-a", ".", "localhost", ":", "8080">>),
     Some(<<"x", ".", "site-a", ".", "localhost">>),
     Some(<<"localhost">>),
     Some(<<"localhost", ":", "8080">>),
     Some(<<"localhost", ".", "localhost">>),
     Some(<<".", "localhost">>),
     Some(<<"site-a", ".", "other", ".", "org">>),
     Some(<<"site-a", ".", "localhost", ".", "org">>),
     Some(<<":", "8080">>)}

\* Request paths: the root, paths with and without ".html", with a final
\* "/", with a query, with "//", and with ".." segments that stay in the
\* site, that lead to the other site, and that lead to the database.
Paths ==
    {<<"/">>,
     <<"/", "about">>,
     <<"/", "about", ".html">>,
     <<"/", "about", "/">>,
     <<"/", "about", "/", "index", ".html">>,
     <<"/", "about", "?", "q">>,
     <<"/", "/", "about">>,
     <<"/", "missing">>,
     <<"/", "missing", "/", "path">>,
     <<"/", "missing", ".html">>,
     <<"/", "about", "/", ".", ".", "/", "index", ".html">>,
     <<"/", ".", ".", "/", "cool-site-1000", "/", "secret", ".html">>,
     <<"/", ".", ".", "/", "cool-site-1000", "/", "secret">>,
     <<"/", ".", ".", "/", ".", ".", "/", "data.db">>,
     <<"/", "data.db">>}

\* The requests that the clients of the static server send; the properties
\* range over the whole of Hosts and Paths.
ClientPaths ==
    {<<"/">>,
     <<"/", "about">>,
     <<"/", "about", "/">>,
     <<"/", "about", ".html">>,
     <<"/", "missing", "/", "path">>,
     <<"/", ".", ".", "/", "cool-site-1000", "/", "secret", ".html">>,
     <<"/", ".", ".", "/", ".", ".", "/", "data.db">>}
ClientHosts ==
    {None,
     Some(<<"site-a", ".", "example", ".", "com">>),
     Some(<<"site-a", ".", "localhost", ":", "8080">>),
     Some(<<"cool-site-1000", ".", "example", ".", "com">>),
     Some(<<".", ".", ".", "example", ".", "com">>)}

InitStatic ==
    /\ sites = {}
    /\ \E fs \in Trees, other \in {None, Some(OtherSiteFiles)} :
           dirs = [n \in AlnumNames |-> IF n = "site-a" THEN Some(fs) ELSE other]
    /\ users = {}
    /\ sessions = {}
    /\ deployment_tokens = {}
    /\ pending_device_codes = {}
    /\ DEV_MODE = FALSE
    /\ now = 0
    /\ rng = [session |-> 0, deploy |-> 0, device |-> 0]
    /\ resp = NoResponse
    /\ tasks = {}

NextStatic ==
    \/ \E host \in ClientHosts, path \in ClientPaths : get(host, path)
    \/ \E host \in ClientHosts, path \in ClientPaths : do_GET(host, path)

SpecStatic == InitStatic /\ [][NextStatic]_vars

\* The server that clients deploy to and read from. The members of an
\* archive have paths of segments, as the files of the static server have.
ArchiveA ==
    [is_zip |-> TRUE,
     members |-> {[path |-> << <<"index", ".html">> >>, data |-> <<"a">>],
                  [path |-> << <<"about", ".html">> >>, data |-> <<"a", "b", "t">>]}]
ArchiveB ==
    [is_zip |-> TRUE,
     members |-> {[path |-> << <<"index", ".html">> >>, data |-> <<"b", "b">>]}]
Archives == {ArchiveA, ArchiveB}
OldFiles == {[path |-> << <<"old", ".html">> >>, data |-> <<"o">>]}

HostOf(name) == Some(<<name, ".">> \o Val(BUZZ_DOMAIN))
HostingAuthorizations ==
    {None} \cup {Some(<<BEARER>> \o generate_session_token(SecretNames[u.id])) : u \in InitUsers}
HostingXSubdomains == {None, Some(<<"site-a">>)}
HostingHosts == {None, BUZZ_DOMAIN} \cup {HostOf(n) : n \in AlnumNames}
HostingPaths ==
    {<<"/">>, <<"/", "about">>, <<"/", "old">>, RouteMe, RouteSites, RouteTokens, RouteHealth}

\* The GETs that the clients send; the properties range over the whole of
\* HostingHosts and HostingPaths.
ClientHostingHosts == {BUZZ_DOMAIN, HostOf("site-a")}
ClientHostingPaths == {<<"/">>, <<"/", "about">>, RouteSites}

InitHosting ==
    /\ \/ /\ sites = {}
          /\ dirs = [n \in AlnumNames |-> None]
       \/ /\ sites = {LegacySite}
          /\ dirs = [n \in AlnumNames |-> IF n = LegacySite.name THEN Some(OldFiles) ELSE None]
    /\ users = InitUsers
    /\ sessions = InitSessions
    /\ deployment_tokens = {}
    /\ pending_device_codes = {}
    /\ DEV_MODE = FALSE
    /\ now = 0
    /\ rng = [session |-> Cardinality(InitSessions), deploy |-> 0, device |-> 0]
    /\ resp = NoResponse
    /\ tasks = {}

NextHosting ==
    \/ \E a \in HostingAuthorizations, x \in HostingXSubdomains,
          f \in Archives \cup {NotZip}, g \in GeneratedNames : deploy(a, x, f, g)
    \/ \E a \in HostingAuthorizations, n \in AlnumNames : delete_site(a, n)
    \/ \E a \in HostingAuthorizations, host \in ClientHostingHosts, path \in ClientHostingPaths :
           app_get(a, host, path)
    \/ \E a \in HostingAuthorizations, host \in ClientHostingHosts, path \in ClientHostingPaths :
           server_get(a, host, path)

SpecHosting == InitHosting /\ [][NextHosting]_vars

\* Deploys that overtake one another at the await, on the server of
\* InitHosting.
NextDeploys ==
    \/ \E a \in HostingAuthorizations, x \in HostingXSubdomains,
          f \in Archives, g \in GeneratedNames : DeployAwait(a, x, f, g)
    \/ \E t \in tasks : DeployResume(t)

SpecDeploys == InitHosting /\ [][NextDeploys]_vars

\* Deploys of one archive, and deletions of sites between their two parts.
NextSites ==
    \/ \E a \in HostingAuthorizations, x \in HostingXSubdomains,
          g \in GeneratedNames : DeployAwait(a, x, ArchiveB, g)
    \/ \E t \in tasks : DeployResume(t)
    \/ \E a \in HostingAuthorizations, n \in AlnumNames : DeleteSite(a, n)

SpecSites == InitHosting /\ [][NextSites]_vars

\* The classifier as a function of the tables: the server starts on a
\* database whose sessions and deployment_tokens hold any of the rows below.
\* Next to the rows of a session token and of a deploy token (without expiry,
\* or with one), there are rows whose id is the digest of a string of another
\* kind: of the deploy token in sessions, of the session token in
\* deployment_tokens, and of a string without known prefix and of the empty
\* string in both.
StrayStrings == {<<"buzz_", "k1">>, <<>>}
ClassifiedSession == generate_session_token("k1")
ClassifiedDeploy == generate_deploy_token("k1")

session_row(token, user_id) ==
    [id |-> hash_token(token), user_id |-> user_id, expires_at |-> SessionLifetime]

InitSessionTables ==
    {own \cup stray :
        own \in {{}, {session_row(ClassifiedSession, 1)}},
        stray \in SUBSET {session_row(t, 2) : t \in {ClassifiedDeploy} \cup StrayStrings}}

InitTokenTables ==
    {own \cup stray :
        own \in {{}}
            \cup {{[token_row(ClassifiedDeploy, "Deployment token", "site-a", 1)
                       EXCEPT !.expires_at = e]} : e \in {None, Some(SessionLifetime)}},
        stray \in SUBSET {token_row(t, "Deployment token", "site-a", 2) :
                             t \in {ClassifiedSession} \cup StrayStrings}}

InitClassify ==
    /\ sites = {}
    /\ dirs = [n \in AlnumNames |-> None]
    /\ users = InitUsers
    /\ sessions \in InitSessionTables
    /\ deployment_tokens \in InitTokenTables
    /\ pending_device_codes = {}
    /\ DEV_MODE = FALSE
    /\ now = 0
    /\ rng = [session |-> 1, deploy |-> 1, device |-> 0]
    /\ resp = NoResponse
    /\ tasks = {}

\* The requests that classify their credential and then only read.
NextClassify ==
    \/ \E a \in Authorizations : me(a)
    \/ \E a \in Authorizations : list_sites(a)
    \/ \E a \in Authorizations : list_tokens(a)
    \/ Tick(SessionLifetime)

SpecClassify == InitClassify /\ [][NextClassify]_vars

------------------------------------------------------------------------------
(* Vocabulary of the properties *)

UserIds == {u.id : u \in InitUsers}

\* The header carries the token, with or without "Bearer ".
Carries(a, token) == a = Some(token) \/ a = Some(<<BEARER>> \o token)

\* a is a session credential of user u: the session table holds the row of
\* its hash, for u, not yet expired.
SessionCredential(a, u) ==
    \E t \in SessionTokens :
        /\ Carries(a, t)
        /\ \E r \in sessions :
               r.id = hash_token(t) /\ r.user_id = u /\ r.expires_at > now

\* a is a deploy token of user u bound to site n.
DeployCredential(a, u, n) ==
    \E t \in DeployTokens :
        /\ Carries(a, t)
        /\ \E r \in deployment_tokens :
               /\ r.id = hash_token(t) /\ r.user_id = u /\ r.site_name = n
               /\ (r.expires_at = None \/ Val(r.expires_at) > now)

CredentialOf(a, u) ==
    SessionCredential(a, u) \/ \E n \in AlnumNames : DeployCredential(a, u, n)

HasCredential(a) == \E u \in UserIds : CredentialOf(a, u)

\* Site n has a row whose owner is a user other than u.
OwnedByOther(n, u) ==
    \E r \in sites : r.name = n /\ r.owner_id # None /\ r.owner_id # Some(u)

\* Site n has a row without an owner.
Unclaimed(n) == \E r \in sites : r.name = n /\ r.owner_id = None

\* The outcome leaves the row and the files of site n as they were.
SiteUnchanged(post, n) ==
    /\ {r \in post.sites : r.name = n} = {r \in sites : r.name = n}
    /\ n \in DOMAIN dirs => post.dirs[n] = dirs[n]

\* The outcome leaves every site row and every directory as it was.
SitesUnchanged(post) == post.sites = sites /\ post.dirs = dirs

\* The token table with the last_used_at of the token that header a carries
\* set to the current time, and nothing else changed.
Stamped(a) ==
    {IF \E t \in DeployTokens : Carries(a, t) /\ r.id = hash_token(t)
     THEN [r EXCEPT !.last_used_at = Some(now)]
     ELSE r : r \in deployment_tokens}

\* The outcomes of the deploys with header a whose target is site n.
DeploysTo(a, n) ==
    {deploy_result(a, x, f, g) :
        <<x, f, g>> \in {i \in XSubdomains \X Uploads \X GeneratedNames :
                            target_subdomain(i[1], i[3]) = <<n>>}}

\* The outcomes of the requests with header a that would change site n or the
\* tokens of site n: deploy, delete-site, create-token.
MutationsOf(a, n) ==
    DeploysTo(a, n) \cup {delete_site_result(a, n), create_token_result(a, n)}

\* The outcomes of the operations that only a session may perform.
SessionOnly(a) ==
    {list_sites_result(a), list_tokens_result(a), me_result(a)}
    \cup {delete_site_result(a, n) : n \in RequestNames}
    \cup {create_token_result(a, n) : n \in RequestNames}
    \cup UNION {delete_token_results(a, id) : id \in TokenIds}

\* The outcomes of all deploys with header a.
Deploys(a) ==
    {deploy_result(a, i[1], i[2], i[3]) : i \in XSubdomains \X Uploads \X GeneratedNames}

------------------------------------------------------------------------------
(* Ownership of sites *)

\* C1 as the specification states it: a mutating request by user U that
\* targets a site owned by another user is answered 403 and leaves the site
\* row, the site's files and the token table unchanged.
C1_Original ==
    \A n \in AlnumNames, u \in UserIds, a \in Authorizations :
        (OwnedByOther(n, u) /\ CredentialOf(a, u)) =>
            \A post \in MutationsOf(a, n) :
                /\ post.resp.status = 403
                /\ SiteUnchanged(post, n)
                /\ post.deployment_tokens = deployment_tokens

\* C1, amended: a mutating request (deploy, delete-site, create-token) by
\* user U that targets a site owned by another user is answered 403 and
\* leaves every site row and every directory unchanged; the token table is
\* unchanged but for the last_used_at of the deploy token that the request
\* presents, if it presents one.
C1_ForeignMutationRejected ==
    \A n \in AlnumNames, u \in UserIds, a \in Authorizations :
        (OwnedByOther(n, u) /\ CredentialOf(a, u)) =>
            \A post \in MutationsOf(a, n) :
                /\ post.resp.status = 403
                /\ SitesUnchanged(post)
                /\ post.deployment_tokens = Stamped(a)

\* A deploy with a deploy token has just been refused because the site is
\* owned by another user, and the token has been stamped all the same.
C1_Witness ==
    /\ resp = Response("deploy", 403, "Site is owned by another user")
    /\ \E t \in deployment_tokens :
           /\ t.last_used_at = Some(now)
           /\ OwnedByOther(t.site_name, t.user_id)

\* C2 as the specification states it: a deploy with a deploy token bound to
\* site S whose x-subdomain header value T differs from S is always answered
\* 403, and the rows and files of S and of T do not change.
C2_Original ==
    \A s \in AlnumNames, u \in UserIds, a \in Authorizations :
        DeployCredential(a, u, s) =>
            \A x \in XSubdomains, f \in Uploads, g \in GeneratedNames :
                LET t == IF x = None THEN <<g>> ELSE Val(x)
                    post == deploy_result(a, x, f, g)
                IN  t # <<s>> =>
                        /\ post.resp.status = 403
                        /\ SiteUnchanged(post, s)
                        /\ Len(t) = 1 => SiteUnchanged(post, t[1])

\* C2, amended: T is the target of the deploy, which is the x-subdomain
\* header with the blanks around it stripped, or the generated name when the
\* header is absent or empty. A deploy with a deploy token bound to S whose
\* target T differs from S is always rejected, with 403 when T is a valid
\* subdomain and with 400 when it is not, and no site row and no directory
\* changes.
C2_ScopeEnforced ==
    \A s \in AlnumNames, u \in UserIds, a \in Authorizations :
        DeployCredential(a, u, s) =>
            \A x \in XSubdomains, f \in Uploads, g \in GeneratedNames :
                LET t == target_subdomain(x, g)
                    post == deploy_result(a, x, f, g)
                IN  t # <<s>> =>
                        /\ post.resp.status =
                               IF is_valid_subdomain(t) THEN 403 ELSE 400
                        /\ SitesUnchanged(post)

\* A deploy with a valid deploy token has just been refused because its
\* target is not the site the token is bound to.
C2_Witness ==
    /\ resp = Response("deploy", 403, "Deploy token is scoped to another site")
    /\ \E t \in deployment_tokens : t.last_used_at = Some(now)

\* The first half of C3: a successful deploy by user U to a site that has no
\* row, or whose row has no owner, leaves the site with owner U.
ClaimsOnDeploy ==
    \A n \in AlnumNames, u \in UserIds, a \in Authorizations :
        (CredentialOf(a, u) /\ ~OwnedByOther(n, u)) =>
            \A post \in DeploysTo(a, n) :
                post.resp.status = 200 =>
                    \E r \in post.sites : r.name = n /\ r.owner_id = Some(u)

\* C3 as the specification states it: a successful deploy to a site without
\* row or without owner makes the deploying user U its owner, and a deploy to
\* that site by any other user is answered 403 "owned by another user".
C3_Original ==
    /\ ClaimsOnDeploy
    /\ \A n \in AlnumNames, v \in UserIds, a \in Authorizations :
           (OwnedByOther(n, v) /\ CredentialOf(a, v)) =>
               \A post \in DeploysTo(a, n) :
                   post.resp = Response("deploy", 403, "Site is owned by another user")

\* C3, amended: a successful deploy to a site without row or without owner
\* makes the deploying user U its owner, and a deploy to that site by any
\* other user V is answered 403: "owned by another user", or, when V presents
\* a deploy token bound to a different site, "scoped to another site".
C3_ClaimOnFirstDeploy ==
    /\ ClaimsOnDeploy
    /\ \A n \in AlnumNames, v \in UserIds, a \in Authorizations :
           (OwnedByOther(n, v) /\ CredentialOf(a, v)) =>
               \A post \in DeploysTo(a, n) :
                   post.resp =
                       IF \E s \in AlnumNames : s # n /\ DeployCredential(a, v, s)
                       THEN Response("deploy", 403, "Deploy token is scoped to another site")
                       ELSE Response("deploy", 403, "Site is owned by another user")

\* User 1 has claimed the site of the time before owners by deploying to it,
\* and a deploy by user 2 has just been refused.
C3_Witness ==
    /\ resp = Response("deploy", 403, "Site is owned by another user")
    /\ \E r \in sites :
           /\ r.name = LegacySite.name /\ r.owner_id = Some(1)
           /\ LegacyFiles \subseteq Val(dirs[r.name])
    /\ \A t \in deployment_tokens : t.last_used_at # Some(now)

------------------------------------------------------------------------------
(* The gates *)

\* C5: with a valid deploy token, the operations that need a session (list
\* sites, delete a site, read the profile, list, create and delete tokens)
\* are answered 403 "Deploy tokens cannot perform this operation", where a
\* caller without valid credential gets 401, and they change nothing but the
\* last_used_at of the token; a deploy is let through the gate with a session
\* token and with a deploy token alike.
C5_SessionOnlyOperations ==
    /\ \A a \in Authorizations :
           (\E u \in UserIds, n \in AlnumNames : DeployCredential(a, u, n)) =>
               \A post \in SessionOnly(a) :
                   /\ post.resp.status = 403
                   /\ post.resp.detail = "Deploy tokens cannot perform this operation"
                   /\ post = [state EXCEPT !.deployment_tokens = Stamped(a),
                                           !.resp = post.resp]
    /\ \A a \in Authorizations :
           ~HasCredential(a) =>
               \A post \in SessionOnly(a) : post.resp.status = 401
    /\ \A a \in Authorizations, u \in UserIds, n \in AlnumNames :
           (/\ SessionCredential(a, u) \/ DeployCredential(a, u, n)
            /\ ~OwnedByOther(n, u)) =>
               deploy_result(a, Some(<<n>>), IndexZip, "cool-site-1000").resp
                   = Response("deploy", 200, "ok")

\* A delete-site with a valid deploy token has just been refused for the kind
\* of its credential, and the site that the token is bound to is still there.
C5_Witness ==
    /\ resp = Response("delete_site", 403, "Deploy tokens cannot perform this operation")
    /\ \E t \in deployment_tokens, r \in sites :
           t.last_used_at = Some(now) /\ r.name = t.site_name

\* C6: with dev mode off, a request (deploy, list sites, delete a site, read
\* the profile, list, create or delete tokens) whose credential is missing,
\* empty, of unknown prefix, unknown to the store or expired is answered 401
\* and changes no site row, no directory, no session and no token.
C6_Unauthenticated ==
    ~DEV_MODE =>
        \A a \in Authorizations :
            ~HasCredential(a) =>
                \A post \in SessionOnly(a) \cup Deploys(a) :
                    /\ post.resp.status = 401
                    /\ post = [state EXCEPT !.resp = post.resp]

\* A deploy has just been answered 401 although the session table holds the
\* rows of the tokens: they have all expired.
C6_Witness ==
    /\ ~DEV_MODE
    /\ resp = Response("deploy", 401, "Unauthorized")
    /\ sessions # {}
    /\ \A r \in sessions : r.expires_at <= now

\* C7 as the specification states it: a delete-site succeeds only when the
\* user of the session is the owner of the site; against a site without
\* owner it is refused and leaves the row and the directory in place.
C7_DeleteOnlyByOwner ==
    \A a \in Authorizations, n \in RequestNames :
        LET post == delete_site_result(a, n)
        IN  /\ post.resp.status = 204 =>
                \E u \in UserIds, r \in sites :
                    SessionCredential(a, u) /\ r.name = n /\ r.owner_id = Some(u)
            /\ Unclaimed(n) => /\ post.resp.status # 204
                               /\ SiteUnchanged(post, n)

\* C8: a create-token for a site whose owner is another user or null is
\* answered 403, one for a site without row 404, and neither adds a row to
\* the token table; every row that a create-token adds has the user_id of
\* the owner of its site.
C8_CreateTokenOnlyByOwner ==
    \A a \in Authorizations, n \in RequestNames :
        LET post == create_token_result(a, n)
            ids == {t.id : t \in deployment_tokens}
            added == {t \in post.deployment_tokens : t.id \notin ids}
        IN  /\ \A u \in UserIds :
                   SessionCredential(a, u) =>
                       /\ (OwnedByOther(n, u) \/ Unclaimed(n)) =>
                              post.resp.status = 403 /\ added = {}
                       /\ (\A r \in sites : r.name # n) =>
                              post.resp.status = 404 /\ added = {}
            /\ post.resp.status # 200 => added = {}
            /\ \A t \in added :
                   /\ t.site_name = n
                   /\ \E r \in sites : r.name = n /\ r.owner_id = Some(t.user_id)

\* A create-token for a site without owner has just been refused, and the
\* token table is empty.
C8_Witness ==
    /\ resp = Response("create_token", 403, "You don't own this site")
    /\ \E r \in sites : r.owner_id = None
    /\ \A r \in sites : r.owner_id = None
    /\ deployment_tokens = {}

\* C9 as the specification states it: after a successful delete-site of S no
\* token row with site_name = S remains, so that a deploy token issued for S
\* no longer authenticates.
C9_DeleteCascades ==
    \A a \in Authorizations, n \in RequestNames :
        LET post == delete_site_result(a, n)
        IN  post.resp.status = 204 =>
                \A t \in post.deployment_tokens : t.site_name # n

\* C10: with dev mode off, a bearer string that starts with the session
\* prefix is classified as authenticated, of kind session, with user_id u
\* exactly when the session table holds a row whose id is the hash of the
\* string, whose user_id is u and whose expires_at is later than now; and it
\* is unauthenticated when there is no such row.
C10_SessionClassification ==
    ~DEV_MODE =>
        \A t \in SessionTokens \cup {<<SESSION_TOKEN_PREFIX>>, <<SESSION_TOKEN_PREFIX, "zz">>} :
            \A a \in {Some(t), Some(<<BEARER>> \o t)} :
                LET valid(u) == \E r \in sessions :
                                    /\ r.id = hash_token(t)
                                    /\ r.user_id = u
                                    /\ r.expires_at > now
                IN  /\ \A u \in UserIds :
                           get_auth_context(a) = AuthContext(TRUE, Some(u), None, "session")
                               <=> valid(u)
                    /\ (~\E u \in UserIds : valid(u)) =>
                           get_auth_context(a) = Unauthenticated

\* The profile has just been refused to a session token at the very second
\* at which its session expires.
C10_Witness ==
    /\ ~DEV_MODE
    /\ resp = Response("me", 401, "Unauthorized")
    /\ \E r \in sessions : r.expires_at = now

------------------------------------------------------------------------------
(* The classifier *)

\* The bearer string of a header: the header without "Bearer ", if it starts
\* with it; the empty string when there is no header.
BearerOf(a) ==
    IF a = None THEN <<>>
    ELSE IF Val(a) # <<>> /\ Head(Val(a)) = BEARER THEN Tail(Val(a))
    ELSE Val(a)

\* The kind that the first piece of a bearer string gives it.
KindOf(t) ==
    IF t # <<>> /\ Head(t) = SESSION_TOKEN_PREFIX THEN "session"
    ELSE IF t # <<>> /\ Head(t) = DEPLOY_TOKEN_PREFIX THEN "deploy"
    ELSE "none"

\* The rows that make a bearer string a valid session or a valid deploy
\* token in the state st, and in the current state.
ValidSessionsIn(st, t) ==
    {r \in st.sessions : r.id = hash_token(t) /\ r.expires_at > st.now}
ValidTokensIn(st, t) ==
    {r \in st.deployment_tokens :
        r.id = hash_token(t) /\ (r.expires_at = None \/ Val(r.expires_at) > st.now)}
ValidSessions(t) == ValidSessionsIn(state, t)
ValidTokens(t) == ValidTokensIn(state, t)

\* The header is no valid credential in the state st.
InvalidIn(st, a) ==
    \/ KindOf(BearerOf(a)) = "none"
    \/ KindOf(BearerOf(a)) = "session" /\ ValidSessionsIn(st, BearerOf(a)) = {}
    \/ KindOf(BearerOf(a)) = "deploy" /\ ValidTokensIn(st, BearerOf(a)) = {}

\* The outcomes of the requests with header a that classify and then only
\* read: profile, list of sites, list of tokens.
ClassifyOnly(a) == {me_result(a), list_sites_result(a), list_tokens_result(a)}

\* C11: a deploy-prefixed bearer string is classified as the deploy token
\* (user_id, site_name) of the row whose id is its hash exactly when that row
\* exists and its expires_at is null or later than now; a request that then
\* only reads leaves that row with last_used_at = now and everything else in
\* every table as it was; and after a successful classification of a session
\* no table has changed at all.
C11_DeployClassification ==
    \A a \in Authorizations :
        LET t == BearerOf(a)
            ctx == get_auth_context(a)
        IN  /\ (KindOf(t) = "deploy" /\ ValidTokens(t) = {}) => ctx = Unauthenticated
            /\ (KindOf(t) = "deploy" /\ ValidTokens(t) # {}) =>
                   \E r \in ValidTokens(t) :
                       /\ ctx = AuthContext(TRUE, Some(r.user_id), Some(r.site_name), "deploy")
                       /\ \A post \in ClassifyOnly(a) :
                              post = [state EXCEPT
                                         !.deployment_tokens =
                                             (deployment_tokens \ {r}) \cup
                                                 {[r EXCEPT !.last_used_at = Some(now)]},
                                         !.resp = post.resp]
            /\ (KindOf(t) = "session" /\ ValidSessions(t) # {}) =>
                   \A post \in ClassifyOnly(a) :
                       post = [state EXCEPT !.resp = post.resp]

\* A deploy token with an expiry that lies ahead has just been classified:
\* its row is stamped, and the request was refused for the kind of its
\* credential.
C11_Witness ==
    /\ resp = Response("me", 403, "Deploy tokens cannot perform this operation")
    /\ \E r \in deployment_tokens :
           /\ r.id = hash_token(ClassifiedDeploy)
           /\ r.expires_at # None /\ Val(r.expires_at) > now
           /\ r.last_used_at = Some(now)

\* C12: a request that does nothing but classify an invalid or expired
\* credential is answered as unauthenticated, changes no table and stamps no
\* last_used_at, and leaves the credential invalid; so the state it leaves
\* is one in which the same holds again: the next classification of the
\* credential, and every one after, goes the same way.
C12_FailedClassificationIdempotent ==
    \A a \in Authorizations :
        InvalidIn(state, a) =>
            /\ get_auth_context(a) = Unauthenticated
            /\ \A post \in ClassifyOnly(a) :
                   /\ post.resp.status = 401
                   /\ post = [state EXCEPT !.resp = post.resp]
                   /\ InvalidIn(post, a)

\* A request has just been answered 401 while the token table holds the row
\* of a deploy token that has expired and was never stamped.
C12_Witness ==
    /\ resp = Response("list_tokens", 401, "Unauthorized")
    /\ \E r \in deployment_tokens :
           /\ r.id = hash_token(ClassifiedDeploy)
           /\ r.expires_at # None /\ Val(r.expires_at) <= now
           /\ r.last_used_at = None

\* C13: the first piece of the bearer string alone decides where it is
\* looked up. A session-prefixed string classifies only through a row of
\* sessions, a deploy-prefixed one only through a row of deployment_tokens,
\* and a string with neither prefix, or an empty one, is unauthenticated and
\* stamps nothing, whatever rows have its hash as their id.
C13_KindByPrefixAlone ==
    \A a \in Authorizations :
        LET t == BearerOf(a)
            ctx == get_auth_context(a)
        IN  /\ KindOf(t) = "none" =>
                   ctx = Unauthenticated /\ stamp_last_used(a) = deployment_tokens
            /\ KindOf(t) = "session" =>
                   /\ stamp_last_used(a) = deployment_tokens
                   /\ IF ValidSessions(t) = {}
                      THEN ctx = Unauthenticated
                      ELSE \E r \in ValidSessions(t) :
                               ctx = AuthContext(TRUE, Some(r.user_id), None, "session")
            /\ KindOf(t) = "deploy" =>
                   IF ValidTokens(t) = {}
                   THEN ctx = Unauthenticated
                   ELSE \E r \in ValidTokens(t) :
                            ctx = AuthContext(TRUE, Some(r.user_id),
                                              Some(r.site_name), "deploy")

\* Both tables hold rows whose id is the hash of a string without known
\* prefix and of the empty string, sessions holds a row with the hash of the
\* deploy token and no row of a session token, and a request carrying the
\* deploy token has just been classified as a deploy token.
C13_Witness ==
    /\ resp = Response("list_sites", 403, "Deploy tokens cannot perform this operation")
    /\ \A t \in StrayStrings :
           /\ \E r \in sessions : r.id = hash_token(t)
           /\ \E r \in deployment_tokens : r.id = hash_token(t)
    /\ \E r \in sessions : r.id = hash_token(ClassifiedDeploy)
    /\ \A r \in sessions : r.id # hash_token(ClassifiedSession)

\* C14: while dev mode is on, every header, valid or not, is classified as
\* the session of user 1; dev mode is off when the server was started without
\* --dev; and no step of the server changes it.
C14_DevModeOnlyByFlag ==
    /\ [](/\ DEV_MODE =>
                \A a \in Authorizations :
                    get_auth_context(a) = AuthContext(TRUE, Some(1), None, "session")
          /\ \A reload \in BOOLEAN : main(FALSE, reload) = {FALSE})
    /\ [][DEV_MODE' = DEV_MODE]_vars

\* In dev mode a request without any credential has just deployed a site,
\* which user 1 owns, on a database without users.
C14_Witness ==
    /\ DEV_MODE
    /\ users = {}
    /\ resp = Response("deploy", 200, "ok")
    /\ \E r \in sites : r.owner_id = Some(1)

------------------------------------------------------------------------------
(* Logout *)

\* The session tokens that the server has issued so far.
IssuedSessionTokens == {generate_session_token(SecretNames[i]) : i \in 1..rng.session}

\* C15: a logout with a session-prefixed bearer T is answered 200 and deletes
\* the session row whose id is the hash of T, if there is one, and nothing
\* else, so that T is no valid session afterwards; a logout without bearer,
\* or with a bearer that has not the session prefix, is answered 400 and
\* changes nothing; and no later step brings back the row of an issued
\* token that has none, so T stays unauthenticated.
C15_LogoutInvalidates ==
    /\ [](\A a \in Authorizations :
              LET t == BearerOf(a)
                  post == logout_result(a)
              IN  /\ KindOf(t) = "session" =>
                         /\ post.resp = Response("logout", 200, "ok")
                         /\ post = [state EXCEPT
                                       !.sessions = {r \in sessions : r.id # hash_token(t)},
                                       !.resp = post.resp]
                         /\ ValidSessionsIn(post, t) = {}
                  /\ KindOf(t) # "session" =>
                         /\ post.resp = Response("logout", 400, "No valid session")
                         /\ post = [state EXCEPT !.resp = post.resp]
                  /\ (KindOf(t) = "session" /\ ValidSessions(t) = {}) =>
                         get_auth_context(a) = Unauthenticated)
    /\ [][\A t \in IssuedSessionTokens :
              (\A r \in sessions : r.id # hash_token(t)) =>
                  (\A r \in sessions' : r.id # hash_token(t))]_vars

\* Two sessions had been issued; one of them has just been logged out, and
\* the other is still there.
C15_Witness ==
    /\ resp = Response("logout", 200, "ok")
    /\ rng.session = 2
    /\ Cardinality(sessions) = 1

------------------------------------------------------------------------------
(* The device flow *)

\* The device codes that the provider has issued so far, the record of a
\* code, and the polls that a client can send.
IssuedDeviceCodes == {DeviceCodeNames[i] : i \in 1..rng.device}
PendingOf(c) == {p \in pending_device_codes : p.device_code = c}
Profiles == GithubUsers \cup RenamedUsers

\* C16: a poll on a device code that is not pending is answered 400 "Invalid
\* or expired device code" and changes nothing. A poll on a pending code
\* after its recorded expiry removes the record and is answered 400 "Device
\* code expired" without a call to the provider, whatever the provider would
\* have answered; at the expiry itself the code is not yet expired. A code
\* that is no longer pending does not become pending again, so every later
\* poll on it is a poll on an unknown code.
C16_UnknownOrExpiredCode ==
    /\ [](\A c \in PolledCodes, r \in PollResults, g \in Profiles :
              LET post == device_poll_result(c, r, g)
              IN  /\ PendingOf(c) = {} =>
                         /\ post.resp = Response("device_poll", 400,
                                            "Invalid or expired device code")
                         /\ post = [state EXCEPT !.resp = post.resp]
                  /\ \A p \in PendingOf(c) :
                         /\ now > p.expires_at =>
                                /\ post.resp = Response("device_poll", 400,
                                                   "Device code expired")
                                /\ post.resp.github = {}
                                /\ post = [state EXCEPT
                                              !.pending_device_codes =
                                                  pending_device_codes \ {p},
                                              !.resp = post.resp]
                         /\ now <= p.expires_at =>
                                "login/oauth/access_token" \in post.resp.github)
    /\ [][\A c \in IssuedDeviceCodes :
              PendingOf(c) = {} =>
                  \A p \in pending_device_codes' : p.device_code # c]_vars

\* A code has just been found expired without asking the provider, and no
\* code is pending any more.
C16_Witness ==
    /\ resp = Response("device_poll", 400, "Device code expired")
    /\ rng.device >= 1
    /\ pending_device_codes = {}

\* The replies of a poll that has reached a terminal outcome: completion,
\* the expiry found locally, and the provider's expired_token and
\* access_denied.
TerminalReplies ==
    {Returning(ResponseAfter("device_poll", 200, "complete",
                   {"login/oauth/access_token", "api.github.com/user"}),
               generate_session_token(SecretNames[i])) : i \in 1..Len(SecretNames)}
    \cup
    {Response("device_poll", 400, "Device code expired"),
     ResponseAfter("device_poll", 400, "Device code expired", {"login/oauth/access_token"}),
     ResponseAfter("device_poll", 400, "User denied access", {"login/oauth/access_token"})}

\* C17: a poll removes the record of its code exactly when it reaches a
\* terminal outcome, and it removes no other record; a poll on a code that is
\* not pending is answered neither "pending" nor "complete" and creates no
\* session and no user. Records leave the table one at a time, only in a
\* step that is a terminal poll, and a code that has left the table does not
\* come back, so each record is removed exactly once.
C17_RemovedOnceByTerminalPoll ==
    /\ [](\A c \in PolledCodes, r \in PollResults, g \in Profiles :
              LET post == device_poll_result(c, r, g)
              IN  /\ post.pending_device_codes \in
                         {pending_device_codes, pending_device_codes \ PendingOf(c)}
                  /\ PendingOf(c) # {} =>
                         (post.resp \in TerminalReplies
                              <=> post.pending_device_codes = pending_device_codes \ PendingOf(c))
                  /\ PendingOf(c) # {} =>
                         (post.resp \in TerminalReplies
                              <=> post.pending_device_codes # pending_device_codes)
                  /\ PendingOf(c) = {} =>
                         /\ post.resp \notin TerminalReplies
                         /\ post.resp.detail \notin {"pending", "complete"}
                         /\ post.sessions = sessions
                         /\ post.users = users)
    /\ [][/\ pending_device_codes \ pending_device_codes' # {} =>
               /\ Cardinality(pending_device_codes \ pending_device_codes') = 1
               /\ resp' \in TerminalReplies
          /\ \A c \in IssuedDeviceCodes :
               PendingOf(c) = {} =>
                   \A p \in pending_device_codes' : p.device_code # c]_vars

\* Both device codes have been issued and removed, one of them by a
\* completion, and a later poll on a removed code has just been rejected.
C17_Witness ==
    /\ rng.device = 2
    /\ rng.session = 1
    /\ pending_device_codes = {}
    /\ resp = Response("device_poll", 400, "Invalid or expired device code")

\* The provider's errors that are neither "not yet" nor terminal.
OtherErrors ==
    PollResults \ {"access_token", "authorization_pending", "slow_down",
                   "expired_token", "access_denied"}

\* C18: when the provider answers the exchange for a pending, unexpired code
\* with authorization_pending or slow_down, the poll replies status
\* "pending" and changes nothing: the record stays, and no user and no
\* session is written.
C18_NotYetChangesNothing ==
    \A c \in PolledCodes, r \in {"authorization_pending", "slow_down"}, g \in Profiles :
        \A p \in PendingOf(c) :
            now <= p.expires_at =>
                LET post == device_poll_result(c, r, g)
                IN  /\ post.resp = ResponseAfter("device_poll", 200, "pending",
                                       {"login/oauth/access_token"})
                    /\ post = [state EXCEPT !.resp = post.resp]

\* A poll has just been answered "pending" at the very expiry of its code,
\* and the record is still there.
C18_Witness ==
    /\ resp = ResponseAfter("device_poll", 200, "pending", {"login/oauth/access_token"})
    /\ \E p \in pending_device_codes : now = p.expires_at

\* C19: when the provider answers the exchange for a pending, unexpired code
\* with any other error, the poll is answered 400 with the error and changes
\* nothing, so the record stays; and a poll on a pending, unexpired code to
\* which the provider grants the access token completes, which is the case
\* in the state that the failed poll has left.
C19_OtherErrorKeepsRecord ==
    \A c \in PolledCodes, g \in Profiles :
        \A p \in PendingOf(c) :
            now <= p.expires_at =>
                /\ \A r \in OtherErrors :
                       LET post == device_poll_result(c, r, g)
                       IN  /\ post.resp = ResponseAfter("device_poll", 400, r,
                                              {"login/oauth/access_token"})
                           /\ post = [state EXCEPT !.resp = post.resp]
                           /\ p \in post.pending_device_codes
                /\ LET post == device_poll_result(c, "access_token", g)
                   IN  /\ post.resp.status = 200
                       /\ post.resp.detail = "complete"
                       /\ Cardinality(post.sessions) = Cardinality(sessions) + 1

\* A poll has just failed with another error of the provider, and its code
\* is still pending and not expired.
C19_Witness ==
    /\ resp = ResponseAfter("device_poll", 400, "unsupported_grant_type",
                  {"login/oauth/access_token"})
    /\ \E p \in pending_device_codes : now <= p.expires_at

\* C20: the users table never holds two rows with the same github_id, nor
\* two with the same id. A completion for an identity that has a row keeps
\* the id of that row and the other rows, and sets its login and name to
\* those of the profile; a completion for an identity that has none adds
\* exactly one row, with an id that no row had; in both cases the new
\* session belongs to that row.
C20_OneUserPerGithubId ==
    /\ \A u, v \in users : (u.github_id = v.github_id \/ u.id = v.id) => u = v
    /\ \A c \in PolledCodes, g \in Profiles :
           \A p \in PendingOf(c) :
               now <= p.expires_at =>
                   LET post == device_poll_result(c, "access_token", g)
                       known == {u \in users : u.github_id = g.id}
                       row(id) == [id |-> id, github_id |-> g.id,
                                   github_login |-> g.login, github_name |-> g.name]
                   IN  /\ \A u \in known :
                              /\ post.users = (users \ {u}) \cup {row(u.id)}
                              /\ \A r \in post.sessions \ sessions : r.user_id = u.id
                       /\ known = {} =>
                              /\ users \subseteq post.users
                              /\ Cardinality(post.users) = Cardinality(users) + 1
                              /\ \E id \in 1..(Cardinality(users) + 1) :
                                     /\ \A u \in users : u.id # id
                                     /\ post.users = users \cup {row(id)}
                                     /\ \A r \in post.sessions \ sessions : r.user_id = id
                       /\ Cardinality(post.sessions \ sessions) = 1

\* The second completion was for the identity of the first with another
\* login and name: one row, under the first id, with the new login.
C20_Witness ==
    /\ rng.session = 2
    /\ Cardinality(sessions) = 2
    /\ users = {[id |-> 1, github_id |-> 101,
                 github_login |-> "alice-renamed", github_name |-> "Alice R."]}

------------------------------------------------------------------------------
(* Issued secrets *)

\* C21: a poll that completes adds exactly one session row and touches no
\* other: its id is the hash of the secret in the response, which has the
\* session prefix and is one that no row has; its user is the row of users
\* that the profile was stored in; it expires 30 days after the poll. An
\* issued secret that has a row classifies as a session of the row's user
\* while the expiry lies ahead, and as unauthenticated from the expiry on or
\* when it has no row. A session row never changes, and it leaves the table
\* only in a logout.
C21_SessionIssuedByPoll ==
    /\ [](/\ \A c \in DeviceCodes, g \in Profiles :
               \A p \in PendingOf(c) :
                   now <= p.expires_at =>
                       LET post == device_poll_result(c, "access_token", g)
                           secret == Val(post.resp.token)
                       IN  /\ post.resp.token # None
                           /\ KindOf(secret) = "session"
                           /\ \A r \in sessions : r.id # hash_token(secret)
                           /\ sessions \subseteq post.sessions
                           /\ \E u \in post.users :
                                  /\ u.github_id = g.id
                                  /\ post.sessions \ sessions =
                                         {[id |-> hash_token(secret), user_id |-> u.id,
                                           expires_at |-> now + 30 * 86400]}
          /\ \A t \in IssuedSessionTokens :
                  LET ctx == get_auth_context(Some(<<BEARER>> \o t))
                      rows == {r \in sessions : r.id = hash_token(t)}
                  IN  /\ Cardinality(rows) <= 1
                      /\ \A r \in rows :
                             ctx = IF r.expires_at > now
                                   THEN AuthContext(TRUE, Some(r.user_id), None, "session")
                                   ELSE Unauthenticated
                      /\ rows = {} => ctx = Unauthenticated)
    /\ [][\A r \in sessions :
              \/ r \in sessions'
              \/ /\ \A q \in sessions' : q.id # r.id
                 /\ resp' = Response("logout", 200, "ok")]_vars

\* Two sessions have been issued and are still there; the first has lapsed,
\* and the second has just been presented and accepted.
C21_Witness ==
    /\ resp = Response("me", 200, "ok")
    /\ Cardinality(sessions) = 2
    /\ \E r \in sessions : r.expires_at <= now

\* The deploy secrets that create-token has returned so far, and every
\* secret of either kind that the entropy source can produce.
IssuedDeployTokens == {generate_deploy_token(SecretNames[i]) : i \in 1..rng.deploy}
RawSecrets ==
    {generate_session_token(SecretNames[i]) : i \in 1..Len(SecretNames)}
    \cup {generate_deploy_token(SecretNames[i]) : i \in 1..Len(SecretNames)}

\* C22: a create-token that succeeds for site S adds exactly one row and
\* touches no other: its id is the hash of the secret in the response,
\* which has the deploy prefix; its user is the caller, who owns S; its site
\* is S; it has no expiry. No row of sessions or deployment_tokens has a
\* raw secret as its id: every id is the hash of a secret. An issued deploy
\* secret that has a row classifies as deploy scope with the user and the
\* site of the row, at any time and whatever became of the site; without
\* row it is unauthenticated. A row keeps its user, site and expiry, and it
\* leaves the table only in a successful delete-token.
C22_TokenIssuedByCreate ==
    /\ [](/\ \A a \in Authorizations, n \in RequestNames :
               LET post == create_token_result(a, n)
                   ctx == get_auth_context(a)
                   secret == Val(post.resp.token)
               IN  post.resp.status = 200 =>
                       /\ post.resp.token # None
                       /\ KindOf(secret) = "deploy"
                       /\ \E r \in sites : r.name = n /\ r.owner_id = ctx.user_id
                       /\ \A r \in deployment_tokens : r.id # hash_token(secret)
                       /\ post.deployment_tokens = deployment_tokens \cup
                              {[id |-> hash_token(secret), name |-> "Deployment token",
                                site_name |-> n, user_id |-> Val(ctx.user_id),
                                expires_at |-> None, last_used_at |-> None]}
                       /\ post.sessions = sessions
          /\ \A r \in sessions \cup deployment_tokens :
                  /\ r.id \notin RawSecrets
                  /\ \E raw \in RawSecrets : r.id = hash_token(raw)
          /\ \A t \in IssuedDeployTokens :
                  LET ctx == get_auth_context(Some(<<BEARER>> \o t))
                      rows == {r \in deployment_tokens : r.id = hash_token(t)}
                  IN  /\ Cardinality(rows) <= 1
                      /\ \A r \in rows :
                             ctx = AuthContext(TRUE, Some(r.user_id), Some(r.site_name),
                                               "deploy")
                      /\ rows = {} => ctx = Unauthenticated)
    /\ [][\A r \in deployment_tokens :
              \/ \E q \in deployment_tokens' :
                     /\ q.id = r.id
                     /\ q.user_id = r.user_id
                     /\ q.site_name = r.site_name
                     /\ q.expires_at = r.expires_at
              \/ resp' = Response("delete_token", 204, "ok")]_vars

\* A token was created 30 days ago for a site that is gone since, and it has
\* just been presented: it is still the token of that site.
C22_Witness ==
    /\ now = 30 * 86400
    /\ sites = {}
    /\ resp = Response("deploy", 403, "Deploy token is scoped to another site")
    /\ \E r \in deployment_tokens : r.last_used_at = Some(now)

------------------------------------------------------------------------------
(* Deleting tokens *)

\* The ids that a delete-token can carry, and the rows that an outcome of
\* the request has removed.
DeleteIds ==
    ShownIds \cup WildcardIds \cup {t.id : t \in OldTokens}
    \cup {<<Underscores>> \o Tail(t.id) : t \in OldTokens}
RemovedIn(post) ==
    {r \in deployment_tokens : \A q \in post.deployment_tokens : q.id # r.id}

\* C23: whatever header and whatever id a delete-token carries, the empty id
\* and ids with "%" or "_" included, every outcome removes at most one row,
\* and only a row of the user that the header is a session of; the rows
\* that stay are unchanged. When that user has no token whose id matches,
\* and so when the user has no token at all, the answer is 404 and no row
\* is removed.
C23_DeletesOnlyOwnToken ==
    \A a \in Authorizations, id \in DeleteIds :
        LET ctx == get_auth_context(a)
        IN  \A post \in delete_token_results(a, id) :
                /\ Cardinality(RemovedIn(post)) <= 1
                /\ \A r \in RemovedIn(post) :
                       /\ ctx.token_type = "session"
                       /\ ctx.user_id = Some(r.user_id)
                       /\ post.resp = Response("delete_token", 204, "ok")
                       /\ post.deployment_tokens = deployment_tokens \ {r}
                /\ ctx.token_type = "session" =>
                       /\ select_token_like(id, ctx.user_id) = {} =>
                              /\ post.resp = Response("delete_token", 404, "Token not found")
                              /\ RemovedIn(post) = {}
                       /\ (\A r \in deployment_tokens : Some(r.user_id) # ctx.user_id) =>
                              post.resp.status = 404
                       /\ post.resp.status = 404 => RemovedIn(post) = {}

\* The second user has just deleted the only token they had; the two tokens
\* of the first user are still there.
C23_Witness ==
    /\ resp = Response("delete_token", 204, "ok")
    /\ Cardinality(deployment_tokens) = 2
    /\ \A r \in deployment_tokens : r.user_id = 1
    /\ rng.deploy = 0

\* C24: when the id of a delete-token matches more than one token of the
\* caller, the request is either rejected and removes nothing, or it removes
\* the one token whose whole id is the id given.
C24_AmbiguousIdRejected ==
    \A a \in Authorizations, id \in DeleteIds :
        LET ctx == get_auth_context(a)
            matching == {t \in deployment_tokens :
                            like_prefix(id, t.id) /\ Some(t.user_id) = ctx.user_id}
        IN  (ctx.token_type = "session" /\ Cardinality(matching) > 1) =>
                \A post \in delete_token_results(a, id) :
                    \/ post.resp.status >= 400 /\ RemovedIn(post) = {}
                    \/ \A r \in RemovedIn(post) : r.id = id

------------------------------------------------------------------------------
(* Static files *)

\* The tenants that have or may have a directory, the two servers'
\* resolvers, and the files that the resolver looks for, in its order,
\* for a path: the file at the path itself, with "index.html" added to a
\* path that ends in "/"; and for a path that does not end in ".html", the
\* path with ".html" added and then "index.html" in the directory of that
\* name.
Tenants == {<<n>> : n \in AlnumNames}
Resolvers(subdomain, path) ==
    {serve_static(subdomain, path), RequestHandler_serve_static(subdomain, path)}
SiteDir(subdomain) == SITES_DIR \o <<subdomain>>
Rewritten(path) ==
    IF before(path, "?")[Len(before(path, "?"))] = "/"
    THEN before(path, "?") \o <<"index", ".html">>
    ELSE before(path, "?")
Order(subdomain, path) ==
    LET p == Rewritten(path)
        exact == SiteDir(subdomain) \o split(lstrip_slash(p), "/")
    IN  IF p[Len(p)] = ".html"
        THEN <<exact>>
        ELSE <<exact,
               SiteDir(subdomain) \o split(lstrip_slash(p \o <<".html">>), "/"),
               exact \o << <<"index", ".html">> >> >>
Found(subdomain, path) ==
    {i \in 1..Len(Order(subdomain, path)) : is_file(Order(subdomain, path)[i])}

\* C25: for a site whose directory exists and any path, when one of the
\* files of the order is there, the response is 200 with the bytes of the
\* first of them that is; when none is, the response has the bytes of none
\* of them.
C25_FirstCandidateWins ==
    \A subdomain \in Tenants, path \in Paths :
        exists(SiteDir(subdomain)) =>
            \A r \in Resolvers(subdomain, path) :
                LET order == Order(subdomain, path)
                    found == Found(subdomain, path)
                IN  /\ found # {} =>
                           /\ r.status = 200
                           /\ r.file = Some(file_at(
                                  order[CHOOSE i \in found : \A j \in found : i <= j]))
                    /\ found = {} =>
                           \/ r.file = None
                           \/ Val(r.file).path =
                                  SiteDir(subdomain) \o << <<"404", ".html">> >>

\* The site has about.html and about/index.html, and a request has just been
\* answered with about.html.
C25_Witness ==
    /\ resp.op = "serve_static"
    /\ resp.status = 200
    /\ resp.file # None
    /\ Val(resp.file).path = SiteDir(<<"site-a">>) \o << <<"about", ".html">> >>
    /\ is_file(SiteDir(<<"site-a">>) \o << <<"about">>, <<"index", ".html">> >>)

\* The fallback files of a site.
Spa(subdomain) == SiteDir(subdomain) \o << <<"200", ".html">> >>
Custom404(subdomain) == SiteDir(subdomain) \o << <<"404", ".html">> >>

\* C26: for a site whose directory exists, when none of the files of the
\* order is there and the site has 200.html, the response is 200 with the
\* bytes of 200.html.
C26_SpaFallback ==
    \A subdomain \in Tenants, path \in Paths :
        (/\ exists(SiteDir(subdomain))
         /\ Found(subdomain, path) = {}
         /\ is_file(Spa(subdomain))) =>
            LET r == serve_static(subdomain, path)
            IN  /\ r.status = 200
                /\ r.file = Some(file_at(Spa(subdomain)))

\* C27: for a site whose directory exists and that has no 200.html, when
\* none of the files of the order is there, both servers answer 404: with
\* the bytes of the site's 404.html when it has one, and with the text
\* "404 Not Found" when it has none.
C27_Custom404WithStatus404 ==
    \A subdomain \in Tenants, path \in Paths :
        (/\ exists(SiteDir(subdomain))
         /\ Found(subdomain, path) = {}
         /\ ~exists(Spa(subdomain))) =>
            \A r \in Resolvers(subdomain, path) :
                /\ r.status = 404
                /\ is_file(Custom404(subdomain)) =>
                       r.file = Some(file_at(Custom404(subdomain)))
                /\ ~exists(Custom404(subdomain)) =>
                       /\ r.file = None
                       /\ r.detail = "404 Not Found"

\* The names that a Host header can give a tenant, with or without a
\* directory.
Subdomains ==
    Tenants \cup {<<"ghost">>, <<"a", ".", "b">>, <<"x">>}

\* C28: for a tenant without site directory, both servers answer every path
\* with 404 and the text "Site not found", and with the bytes of no file;
\* so does a GET with the Host of such a tenant.
C28_SiteCheckFirst ==
    /\ \A subdomain \in Subdomains, path \in Paths :
           ~exists(SiteDir(subdomain)) =>
               \A r \in Resolvers(subdomain, path) :
                   /\ r.status = 404
                   /\ r.detail = "Site not found"
                   /\ r.file = None
    /\ \A host \in Hosts, path \in Paths :
           LET subdomain == extract_subdomain(host, BUZZ_DOMAIN)
           IN  (truthy(subdomain) /\ ~exists(SiteDir(Val(subdomain)))) =>
                   /\ get_result(host, path).resp =
                          text_response("serve_static", 404, "Site not found")
                   /\ do_GET_result(host, path).resp =
                          text_response("RequestHandler.serve_static", 404,
                                        "Site not found")

\* The second site has no directory, the first has a 404.html, and a request
\* has just been answered "Site not found".
C28_Witness ==
    /\ resp = text_response("serve_static", 404, "Site not found")
    /\ dirs["cool-site-1000"] = None
    /\ is_file(Custom404(<<"site-a">>))

\* C29: whatever the Host header and the path, a response with the bytes of
\* a file has those of a file below the site directory of the tenant that
\* the Host header names.
C29_ConfinedToSiteDir ==
    \A host \in Hosts, path \in Paths :
        \A r \in {get_result(host, path).resp, do_GET_result(host, path).resp} :
            r.file # None =>
                LET subdomain == extract_subdomain(host, BUZZ_DOMAIN)
                    read == Val(r.file).path
                IN  /\ truthy(subdomain)
                    /\ Val(subdomain) \in Tenants
                    /\ Len(read) > Len(SiteDir(Val(subdomain)))
                    /\ SubSeq(read, 1, Len(SiteDir(Val(subdomain)))) =
                           SiteDir(Val(subdomain))

------------------------------------------------------------------------------
(* The tenant of a host *)

\* Base domains: none, the empty string, a domain, and localhost itself.
Domains ==
    {None, Some(<<>>), Some(<<"example", ".", "com">>), Some(<<"localhost">>)}

\* The pieces of a host in front of its first ":", the pieces of a string
\* in front of its first "." and behind its last ".", and the strings left
\* with which left + "." + domain is the string.
Portless(host) == SubSeq(host, 1, (CHOOSE i \in 1..(Len(host) + 1) :
                                      /\ i = Len(host) + 1 \/ host[i] = ":"
                                      /\ \A j \in 1..(i - 1) : host[j] # ":") - 1)
Dots(h) == {i \in 1..Len(h) : h[i] = "."}
FirstLabel(h) == SubSeq(h, 1, (CHOOSE i \in Dots(h) : \A j \in Dots(h) : i <= j) - 1)
LastLabel(h) == SubSeq(h, (CHOOSE i \in Dots(h) : \A j \in Dots(h) : i >= j) + 1, Len(h))
LeftOf(h, domain) ==
    {SubSeq(h, 1, n) : n \in {k \in 0..Len(h) : SubSeq(h, 1, k) \o <<".">> \o domain = h}}

\* The tenant that the rules give each host and base domain.
TenantByRule ==
    \A host \in Hosts, domain \in Domains :
        LET tenant == extract_subdomain(host, domain)
            h == Portless(Val(host))
            based == IF domain = None \/ domain = Some(<<>>)
                     THEN {}
                     ELSE LeftOf(h, Val(domain))
        IN  /\ tenant = None \/ tenant = Some(Val(tenant))
            /\ (host = None \/ host = Some(<<>>)) => tenant = None
            /\ (host # None /\ host # Some(<<>>)) =>
                   /\ \A left \in based :
                          tenant = IF left = <<>> THEN None ELSE Some(left)
                   /\ (based = {} /\ Dots(h) # {}
                          /\ LastLabel(h) = <<"localhost">>
                          /\ FirstLabel(h) # <<"localhost">>) =>
                              tenant = Some(FirstLabel(h))
                   /\ (based = {} /\ ~(/\ Dots(h) # {}
                                       /\ LastLabel(h) = <<"localhost">>
                                       /\ FirstLabel(h) # <<"localhost">>)) =>
                              tenant = None

\* C30: extract_subdomain has a value for every host and base domain. An
\* absent or empty host has no tenant. When a base domain is set and the
\* host without its port is left + "." + base domain, the tenant is left,
\* and there is none when left is empty. Otherwise, when the host without
\* its port has a "." and its last label is "localhost" and its first is
\* not, the tenant is the first label. Every other host has no tenant. A
\* GET of "/" is answered from a site directory when its host has a tenant
\* that is not the empty string, and with the landing page when it has not,
\* as for an absent host and for the apex.
C30_ExtractSubdomain ==
    /\ \A host \in Hosts :
           /\ get_result(host, <<"/">>).resp.op = "serve_static"
                  <=> (/\ extract_subdomain(host, BUZZ_DOMAIN) # None
                       /\ extract_subdomain(host, BUZZ_DOMAIN) # Some(<<>>))
           /\ host \in {None, BUZZ_DOMAIN, Some(Val(BUZZ_DOMAIN) \o <<":", "8080">>)} =>
                  get_result(host, <<"/">>).resp.op = "landing"
    /\ TenantByRule

\* A request whose Host names the first tenant has just been served a file
\* of that tenant's directory.
C30_Witness ==
    /\ resp.op = "serve_static"
    /\ resp.status = 200
    /\ resp.file # None
    /\ Len(Val(resp.file).path) = 3
    /\ Val(resp.file).path[2] = <<"site-a">>

------------------------------------------------------------------------------
(* Deploying and reading *)

\* The member index.html of an archive, and what a GET of "/" on the host of
\* a site gets from each of the two servers.
IndexOf(f) == CHOOSE m \in f.members : m.path = << <<"index", ".html">> >>
RootOf(name) ==
    {create_app(None, HostOf(name), <<"/">>).resp,
     RequestHandler_do_GET(None, HostOf(name), <<"/">>).resp}

\* C31: right after a successful deploy of an archive with index.html to a
\* subdomain, a GET of "/" on the host of that subdomain is answered with
\* status 200 and the bytes of the archive's index.html: the deploy leaves
\* the archive's index.html in the directory of the site, and a GET of "/"
\* on the host of a site is answered with the index.html of its directory.
C31_DeployThenRoot ==
    /\ [](\A name \in AlnumNames :
              (dirs[name] # None /\ \E m \in Val(dirs[name]) : m.path = IndexOf(ArchiveA).path)
                  => \A got \in RootOf(name) :
                         /\ got.status = 200
                         /\ got.file # None
                         /\ \E m \in Val(dirs[name]) :
                                /\ m.path = IndexOf(ArchiveA).path
                                /\ Val(got.file).data = m.data)
    /\ [][\A a \in HostingAuthorizations, x \in HostingXSubdomains,
             f \in Archives, g \in GeneratedNames :
              LET post == deploy_result(a, x, f, g)
                  name == target_subdomain(x, g)[1]
              IN  (resp'.op = "deploy" /\ resp'.status = 200 /\ Becomes(post))
                      => /\ dirs'[name] # None
                         /\ \A m \in Val(dirs'[name]) :
                                m.path = IndexOf(f).path => m.data = IndexOf(f).data
                         /\ \E m \in Val(dirs'[name]) : m.path = IndexOf(f).path]_vars

\* The root of a site that has a row has been served with the bytes of the
\* second archive's index.html.
C31_Witness ==
    /\ resp.op = "serve_static"
    /\ resp.status = 200
    /\ resp.file = Some([path |-> SITES_DIR \o << <<"site-a">>, <<"index", ".html">> >>,
                         data |-> IndexOf(ArchiveB).data])
    /\ \E r \in sites : r.name = "site-a" /\ r.owner_id # None

------------------------------------------------------------------------------
(* The host decides who answers *)

ContentResolvers == {"serve_static", "RequestHandler.serve_static"}

\* C32: a GET whose Host resolves to a tenant is answered by the content
\* resolver whatever its path, /sites, /tokens, /auth/me and /health
\* included, and a GET whose Host resolves to no tenant is not; in the
\* application of the package and in the single-file server.
C32_TenantHostsGetContent ==
    \A a \in HostingAuthorizations, host \in HostingHosts, path \in HostingPaths :
        \A answer \in {create_app(a, host, path).resp,
                       RequestHandler_do_GET(a, host, path).resp} :
            truthy(extract_subdomain(host, BUZZ_DOMAIN)) <=> answer.op \in ContentResolvers

------------------------------------------------------------------------------
(* Deploying again *)

\* C39: when the owner of a site whose directory holds the files of one
\* archive deploys another archive to it, the directory holds exactly the
\* files of the new archive afterwards, and size_bytes is the size of those.
C39_RedeployReplacesTree ==
    \A a \in HostingAuthorizations, x \in HostingXSubdomains,
       f \in Archives, g \in GeneratedNames :
        LET post == deploy_result(a, x, f, g)
            name == target_subdomain(x, g)[1]
        IN  (/\ post.resp.status = 200
             /\ \E r \in sites :
                    r.name = name /\ r.owner_id = get_auth_context(a).user_id
             /\ \E old \in Archives : dirs[name] = Some(old.members))
                => /\ post.dirs[name] = Some(f.members)
                   /\ \A r \in post.sites :
                          r.name = name => r.size_bytes = get_dir_size(f.members)

------------------------------------------------------------------------------
(* Rejected deploys *)

\* C37: a deploy that is rejected (401, 403 or 400) leaves the table sites
\* and the directories of the sites as they were: no row is inserted or
\* updated, and no directory is created or changed.
C37_RejectedDeployChangesNothing ==
    \A a \in Authorizations, x \in XSubdomains, f \in Uploads, g \in GeneratedNames :
        LET post == deploy_result(a, x, f, g)
        IN  post.resp.status \in {400, 401, 403}
                => post.sites = sites /\ post.dirs = dirs

------------------------------------------------------------------------------
(* One session for one code *)

\* C38: a poll writes a user row or inserts a session row only when it also
\* removes the pending record of its code, and then it inserts one session;
\* a poll whose request for the profile fails writes nothing and leaves the
\* record; so there are never more sessions than codes that have been issued
\* and are no longer pending.
C38_OneSessionPerCode ==
    /\ \A c \in PolledCodes, r \in PollResults, g \in GithubUsers \cup ProfileFailures :
           LET post == device_poll_result(c, r, g)
           IN  /\ (post.users # users \/ post.sessions # sessions) =>
                      /\ PendingOf(c) # {}
                      /\ \A p \in post.pending_device_codes : p.device_code # c
                      /\ sessions \subseteq post.sessions
                      /\ Cardinality(post.sessions \ sessions) = 1
               /\ (g \in ProfileFailures /\ post.resp.status = 500) =>
                      /\ post.users = users
                      /\ post.sessions = sessions
                      /\ post.pending_device_codes = pending_device_codes
    /\ Cardinality(sessions) <= rng.device - Cardinality(pending_device_codes)

\* A session has been issued for one code, and the poll of another code has
\* just failed at the request for the profile, with its record still there.
C38_Witness ==
    /\ sessions # {}
    /\ resp = ResponseAfter("device_poll", 500, "Internal Server Error",
                            {"login/oauth/access_token", "api.github.com/user"})
    /\ pending_device_codes # {}

------------------------------------------------------------------------------
(* Requests that overtake one another *)

\* The task t is answered by this step.
Answered(t) == t \in tasks /\ t \notin tasks'

\* C34: when deploys to one subdomain have all passed the check before one
\* of them writes, each of them ends in success, and the one that writes
\* last leaves its files in the directory and a row with the size of the
\* directory and the owner that it wrote.
C34_LastWriteWins ==
    [][\A t \in tasks :
           (Answered(t) /\ t.op = "deploy" /\ t.file.is_zip) =>
               /\ resp'.status = 200
               /\ dirs'[t.name] # None
               /\ t.file.members \subseteq Val(dirs'[t.name])
               /\ \E r \in sites' :
                      /\ r.name = t.name
                      /\ r.size_bytes = get_dir_size(Val(dirs'[t.name]))
                      /\ r.owner_id = claimed_owner([owner_id |-> None], t)
                         \/ \E old \in t.existing : r.owner_id = old.owner_id]_vars

\* C35: when no request is in flight, a site has a directory exactly when it
\* has a row, whatever deploys and deletions of the site have overtaken one
\* another before.
C35_DirectoryIffRow ==
    tasks = {} =>
        \A n \in AlnumNames : dirs[n] # None <=> site_row(n) # {}

\* C36: once a site has an owner, a deploy of another user that ends, also
\* one that passed its check when the site had no owner or no row, leaves
\* the owner and the files of the site as they are.
C36_OwnerKeptUnderInterleaving ==
    [][\A r \in sites, t \in tasks :
           (/\ Answered(t)
            /\ t.op = "deploy"
            /\ t.name = r.name
            /\ r.owner_id # None
            /\ t.user_id # r.owner_id) =>
               /\ dirs'[r.name] = dirs[r.name]
               /\ \E q \in sites' : q.name = r.name /\ q.owner_id = r.owner_id]_vars

------------------------------------------------------------------------------
(* The table of pending codes under concurrent requests *)

\* C33: the accesses of Start and Poll requests to the table of pending
\* codes are serialized: no poll finds, at its del, that the record it looked
\* up has been removed, and while a request is between its first and its
\* last access no other request changes the table.
C33_PendingTableSerialized ==
    /\ [](resp # InternalServerError("device_poll", "KeyError"))
    /\ [][\A t \in tasks :
              t \in tasks' => pending_device_codes' = pending_device_codes]_vars

\* A poll has looked its record up and is waiting for the profile, the
\* record is still in the table, and an earlier poll has issued a session.
C33_Witness ==
    /\ \E t \in tasks :
           /\ t.op = "device_poll"
           /\ t.pc = CallProfile
           /\ has_pending(t.device_code)
    /\ sessions # {}

------------------------------------------------------------------------------
(* Requests that wait for the provider *)

\* C40: every Start and every Poll that has begun is answered in the end,
\* also when the provider never answers.
C40_EveryRequestReturns ==
    \A i \in 1..MaxTasks :
        (\E t \in tasks : t.id = i) ~> (\A t \in tasks : t.id # i)

====
